---------------------------- MODULE Spec2Model ----------------------------
(***************************************************************************)
(* A model of BTR-TOOLS' core (src/btrtools/core/btrieve.py): one file on  *)
(* disk, and the BtrieveAnalyzer operations that read it.                  *)
(*                                                                         *)
(* A file is a byte sequence.  It is kept in the state as a head (the      *)
(* bytes up to the end of the FCR pages, or a shorter file) followed by    *)
(* the pieces appended to it; a piece is a byte string repeated a number   *)
(* of times.  Every operation reads the bytes, never the pieces.           *)
(*                                                                         *)
(* Floats: a score or a percentage is kept as an exact fraction            *)
(* [num, den]; the code compares them with <, > and ==, which are modelled *)
(* by cross-multiplication.                                                *)
(***************************************************************************)
EXTENDS Integers, Sequences, FiniteSets, TLC

VARIABLES
    exists,     \* os.path.exists(filepath)
    readable,   \* open(filepath, "rb") succeeds
    head,       \* the piece that starts the file
    body,       \* the pieces appended after the head, in order
    result      \* the last call of an operation: its arguments and outcome

vars == <<exists, readable, head, body, result>>

\* ------------------------------------------------------------ constants

PAGE_SIZE == 4096
HEADER_SIZE == 16
FCR_PAGES == 2
COMMON_RECORD_SIZES == <<32, 64, 128, 256, 512, 1024>>

\* ------------------------------------------------------------ bounds

\* How many pieces are appended to a file at most.
MaxWrites == 2

\* ------------------------------------------------------------ the bytes

NUL == 0

\* "JOHN DOE    PO Box 123, CA 90210      800555012345       " right-padded
\* with NULs to 64 bytes.
JohnDoeRecord ==
    <<74, 79, 72, 78, 32, 68, 79, 69, 32, 32, 32, 32, 80, 79, 32, 66,
      111, 120, 32, 49, 50, 51, 44, 32, 67, 65, 32, 57, 48, 50, 49, 48,
      32, 32, 32, 32, 32, 32, 56, 48, 48, 53, 53, 53, 48, 49, 50, 51,
      52, 53, 32, 32, 32, 32, 32, 32, 32, 0, 0, 0, 0, 0, 0, 0>>

\* "p.o. box 7b, TX 75001-1234 8005551234 D1234 12.50 ABC" right-padded with
\* NULs to 64 bytes.
ClaimRecord ==
    <<112, 46, 111, 46, 32, 98, 111, 120, 32, 55, 98, 44, 32, 84,
      88, 32, 55, 53, 48, 48, 49, 45, 49, 50, 51, 52, 32, 56, 48,
      48, 53, 53, 53, 49, 50, 51, 52, 32, 68, 49, 50, 51, 52, 32,
      49, 50, 46, 53, 48, 32, 65, 66, 67, 0, 0, 0, 0, 0, 0, 0, 0,
      0, 0, 0>>

\* A piece: [unit |-> a byte string, reps |-> how often it is repeated].
Piece(p) ==
    CASE p = "empty"     -> [unit |-> <<NUL>>, reps |-> 0]
      [] p = "fixture4k" -> [unit |-> <<65, 66, 67, 68>>, reps |-> 1024] \* b'ABCD' * 1024
      [] p = "fcr_short" -> [unit |-> <<NUL>>, reps |-> 8191]
      [] p = "fcr"       -> [unit |-> <<NUL>>, reps |-> 8192]
      [] p = "fcr_4080"  -> [unit |-> <<NUL>>, reps |-> 12272]
      [] p = "fcr_page"  -> [unit |-> <<NUL>>, reps |-> 12288]
      [] p = "john_4"    -> [unit |-> JohnDoeRecord, reps |-> 4]
      [] p = "abc_10"    -> [unit |-> <<65, 66, 67, 32>>, reps |-> 10]   \* "ABC "
      [] p = "abc_1"     -> [unit |-> <<65, 66, 67, 32>>, reps |-> 1]
      [] p = "proc_6"    -> [unit |-> <<68, 49, 50, 51, 52, 32>>, reps |-> 6] \* "D1234 "
      [] p = "seq_4"     -> [unit |-> <<54, 44, 55, 44, 56, 44, 57, 44, 49, 48>>,
                             reps |-> 4]                                 \* "6,7,8,9,10"
      [] p = "charset_3" -> [unit |-> <<65, 66, 67, 68, 69, 70, 71, 72, 73, 74, 75, 76,
                                        77, 78, 79, 80, 81, 82, 83, 84, 85, 86, 87, 88,
                                        89, 90>>, reps |-> 3]
      [] p = "ctrl_99"   -> [unit |-> <<1>>, reps |-> 99]
      [] p = "ctrl_1"    -> [unit |-> <<1>>, reps |-> 1]
      [] p = "hash_1"    -> [unit |-> <<35>>, reps |-> 1]                \* "#"
      [] p = "a_64"      -> [unit |-> <<65>>, reps |-> 64]               \* "A" * 64
      [] p = "zip_6"     -> [unit |-> <<57, 48, 50, 49, 48>>, reps |-> 6]   \* "90210"
      [] p = "alpha5_2"  -> [unit |-> <<65, 66, 67, 68, 69>>, reps |-> 2]   \* "ABCDE"
      [] p = "gap_2"     -> [unit |-> <<49, 50, 0, 0, 65>>, reps |-> 2]     \* "12\0\0A"
      [] p = "claim_1"   -> [unit |-> ClaimRecord, reps |-> 1]
      [] p = "sparse_1k" -> [unit |-> <<65, 0, 0, 0, 0, 0, 0, 0, 0, 0, 0, 0, 0, 0, 0, 0,
                                        0, 0, 0, 0, 0, 0, 0, 0, 0, 0, 0, 0, 0, 0, 0, 0>>,
                             reps |-> 32]                \* ("A" + 31 NULs) * 32

\* How a file starts: an empty file, the 4096-byte file of the test fixture,
\* a file one byte short of its FCR pages, the two FCR pages, and the FCR
\* pages followed by 4080 NULs or by a page of NULs.
Heads == {"empty", "fixture4k", "fcr_short", "fcr", "fcr_4080", "fcr_page"}

\* What is appended after the FCR pages.
DataPieces == {"john_4", "abc_10", "abc_1", "proc_6", "seq_4", "charset_3",
               "ctrl_99", "ctrl_1", "hash_1", "a_64", "sparse_1k"}

PieceLen(p) == Len(Piece(p).unit) * Piece(p).reps

PieceBytes(p) ==
    LET pc == Piece(p)
        n  == Len(pc.unit)
    IN  [i \in 1..(n * pc.reps) |-> pc.unit[((i - 1) % n) + 1]]

RECURSIVE Concat(_)
Concat(ps) == IF ps = <<>> THEN <<>> ELSE PieceBytes(Head(ps)) \o Concat(Tail(ps))

RECURSIVE SumLen(_)
SumLen(ps) == IF ps = <<>> THEN 0 ELSE PieceLen(Head(ps)) + SumLen(Tail(ps))

\* The file on disk: its size, and its bytes (the head's bytes are computed
\* on demand, the appended bytes are laid out).
TheFile ==
    [size |-> PieceLen(head) + SumLen(body),
     headLen |-> PieceLen(head),
     headUnit |-> Piece(head).unit,
     tail |-> Concat(body)]

\* A file that starts with piece h and goes on with the pieces of b.
FileHolding(h, b) ==
    [size |-> PieceLen(h) + SumLen(b),
     headLen |-> PieceLen(h),
     headUnit |-> Piece(h).unit,
     tail |-> Concat(b)]

\* The byte at offset off (from 0) of file f.
FileByte(f, off) ==
    IF off < f.headLen
    THEN f.headUnit[(off % Len(f.headUnit)) + 1]
    ELSE f.tail[off - f.headLen + 1]

Min(a, b) == IF a <= b THEN a ELSE b
Max(a, b) == IF a >= b THEN a ELSE b

\* f.read(n) with the file position at pos: at most n bytes, fewer at the end
\* of the file, none past it.
Read(f, pos, n) ==
    LET k == Min(n, Max(0, f.size - pos))
    IN  [i \in 1..k |-> FileByte(f, pos + i - 1)]

\* f.read(): the whole file.
ReadAll(f) == Read(f, 0, f.size)


\* ------------------------------------------------------------ characters
\* Python's str predicates and the re module's classes, on the code points
\* 0..255 that latin-1 decodes bytes to.

\* bytes.decode("latin-1"): byte b becomes the code point b.
Latin1Decode(bytes) == [i \in 1..Len(bytes) |-> bytes[i]]

IsDigit(c) == c \in 48..57 \/ c \in {178, 179, 185}              \* str.isdigit
IsAlpha(c) ==                                                    \* str.isalpha
    \/ c \in 65..90 \/ c \in 97..122 \/ c \in {170, 181, 186}
    \/ c \in 192..214 \/ c \in 216..246 \/ c \in 248..255
IsPrintable(c) == c \in 32..126 \/ c \in 161..172 \/ c \in 174..255   \* str.isprintable
IsSpace(c) == c \in 9..13 \/ c \in 28..32 \/ c \in {133, 160}    \* str.strip(), \s

\* s.rstrip("\x00"): s without its trailing NULs.
RStripNul(s) ==
    LET n == Len(s)
        t == CHOOSE k \in 0..n :
                 /\ (k = n \/ s[n - k] # NUL)
                 /\ \A i \in (n - k + 1)..n : s[i] = NUL
    IN  SubSeq(s, 1, n - t)

\* bool(s.strip()): something other than white space is left.
StripNonEmpty(s) == \E i \in 1..Len(s) : ~IsSpace(s[i])

\* ------------------------------------------------------------ results

Raise(kind) == [raises |-> kind, value |-> <<>>]
Return(v) == [raises |-> "none", value |-> v]

\* An optional argument is a set: {} is None, {n} is n.
None == {}
Some(n) == {n}
The(opt) == CHOOSE n \in opt : TRUE

\* The element of a one-element set: Only({F(x) : x \in {e}}) is F(e) with e
\* computed once and named x.
Only(S) == CHOOSE x \in S : TRUE

\* ------------------------------------------------------------ records

\* BtrieveAnalyzer._create_record
CreateRecord(record_num, record_size, record_bytes) ==
    LET decoded_text == RStripNul(Latin1Decode(record_bytes))
    IN  [record_num |-> record_num,
         record_size |-> record_size,
         raw_bytes |-> record_bytes,
         decoded_text |-> decoded_text,
         printable_chars |->
             Cardinality({i \in 1..Len(decoded_text) : IsPrintable(decoded_text[i])}),
         has_digits |-> \E i \in 1..Len(decoded_text) : IsDigit(decoded_text[i]),
         has_alpha |-> \E i \in 1..Len(decoded_text) : IsAlpha(decoded_text[i])]

\* A variant of LoopLeaves: the loop leaves on an empty read only, so a short
\* last read is kept as a record.
LoopLeavesOnEmptyRead(f, pos, record_size, max_records, n) ==
    \/ (max_records # None /\ n + 1 > The(max_records))
    \/ Len(Read(f, pos + n * record_size, record_size)) = 0

\* The loop of extract_records, entered with the file position at pos.  After
\* n records the loop is at record_num = n + 1 and leaves when the cap is
\* passed or the next read is short.
LoopLeaves(f, pos, record_size, max_records, n) ==
    \/ (max_records # None /\ n + 1 > The(max_records))
    \/ Len(Read(f, pos + n * record_size, record_size)) # record_size

\* The records the loop appends: one per iteration before the first one that
\* leaves.
ReadLoop(f, pos, record_size, max_records) ==
    LET count == CHOOSE n \in 0..f.size :
                     /\ LoopLeaves(f, pos, record_size, max_records, n)
                     /\ \A m \in 0..(n - 1) :
                            ~LoopLeaves(f, pos, record_size, max_records, m)
    IN  [record_num \in 1..count |->
            CreateRecord(record_num, record_size,
                         Read(f, pos + (record_num - 1) * record_size, record_size))]

\* A variant of Seek: seeking past the end of the file fails with an OSError.
SeekWithinFile(f, offset) ==
    IF offset > f.size THEN [raises |-> "OSError", value |-> offset]
    ELSE [raises |-> "none", value |-> offset]

\* f.seek(offset): the position moves to offset, past the end of the file too.
Seek(f, offset) == [raises |-> "none", value |-> offset]

\* BtrieveAnalyzer.extract_records on a file that exists (ex), can be opened
\* (rd) and holds f.
ExtractRecords(ex, rd, f, record_size, max_records) ==
    IF ~ex THEN Raise("BTRFileError")
    ELSE IF record_size <= 0 THEN Raise("BTRValidationError")
    ELSE IF ~rd THEN Raise("BTRFileError")
    ELSE LET sought == Seek(f, FCR_PAGES * PAGE_SIZE)
         IN  IF sought.raises # "none" THEN Raise("BTRFileError")   \* IOError, OSError
             ELSE Return(ReadLoop(f, sought.value, record_size, max_records))

\* ------------------------------------------------------------ scoring

Frac(n, d) == [num |-> n, den |-> d]
FracLess(a, b) == a.num * b.den < b.num * a.den
FracEq(a, b) == a.num * b.den = b.num * a.den

\* sum(r.printable_chars for r in records)
SumPrintable(records) ==
    Cardinality(UNION {{<<i, k>> : k \in 1..records[i].printable_chars} :
                          i \in 1..Len(records)})

\* A variant of PrintableDensity: the density is not capped at 1.
PrintableDensityUncapped(sum_printable, total_records) == sum_printable

\* min(avg_printable / 50, 1), times 50 * total_records
PrintableDensity(sum_printable, total_records) == Min(sum_printable, 50 * total_records)

\* BtrieveAnalyzer._calculate_quality_score: a value in [0, 100], as a fraction
\* over 50 * total_records.
CalculateQualityScore(records) ==
    IF records = <<>> THEN Frac(0, 1)
    ELSE LET total_records == Len(records)
             idx == 1..total_records
             text_records == Cardinality({i \in idx : StripNonEmpty(records[i].decoded_text)})
             digit_records == Cardinality({i \in idx : records[i].has_digits})
             alpha_records == Cardinality({i \in idx : records[i].has_alpha})
             sum_printable == SumPrintable(records)
         IN  \* 30 t/n + 20 d/n + 20 a/n + 30 min((p/n)/50, 1)
             Frac(50 * (30 * text_records + 20 * digit_records + 20 * alpha_records)
                    + 30 * PrintableDensity(sum_printable, total_records),
                  50 * total_records)

\* ------------------------------------------------------------ size detection

\* A variant of ScoreBeats: score >= best_score, a later tie replaces the best.
ScoreBeatsOrTies(score, best_score) == ~FracLess(score, best_score)

\* score > best_score
ScoreBeats(score, best_score) == FracLess(best_score, score)

\* One pass of the loop of detect_record_size over COMMON_RECORD_SIZES[i..]:
\* a candidate whose extraction raises or yields nothing is skipped.
RECURSIVE DetectLoop(_, _, _, _, _, _, _)
DetectLoop(ex, rd, f, max_records, i, best_size, best_score) ==
    IF i > Len(COMMON_RECORD_SIZES) THEN [best_size |-> best_size, best_score |-> best_score]
    ELSE LET record_size == COMMON_RECORD_SIZES[i]
             got == ExtractRecords(ex, rd, f, record_size, Some(max_records))
         IN  IF got.raises # "none" \/ got.value = <<>>
             THEN DetectLoop(ex, rd, f, max_records, i + 1, best_size, best_score)
             ELSE LET score == CalculateQualityScore(got.value)
                  IN  IF ScoreBeats(score, best_score)
                      THEN DetectLoop(ex, rd, f, max_records, i + 1, record_size, score)
                      ELSE DetectLoop(ex, rd, f, max_records, i + 1, best_size, best_score)

\* BtrieveAnalyzer.detect_record_size
DetectRecordSize(ex, rd, f, max_records) ==
    IF ~ex THEN Raise("BTRFileError")
    ELSE LET best == DetectLoop(ex, rd, f, max_records, 1, 64, Frac(0, 1))
         IN  IF best.best_score.num = 0
             THEN Raise("BTRDataError")
             ELSE Return([size |-> best.best_size,
                          quality |-> Frac(best.best_score.num, best.best_score.den * 100)])

\* ------------------------------------------------------------ patterns
\* re.findall counts, on a text of code points.  A matcher gives, for a
\* start index i (from 1), the index after the match that re finds there
\* (greedy, backtracking), or 0 when the pattern does not match at i.

At(t, i) == IF i \in 1..Len(t) THEN t[i] ELSE -1

IsReDigit(c) == c \in 48..57                                     \* \d
IsWord(c) ==                                                     \* \w
    \/ c \in 48..57 \/ c \in 65..90 \/ c = 95 \/ c \in 97..122
    \/ c \in {170, 178, 179, 181, 185, 186, 188, 189, 190}
    \/ c \in 192..214 \/ c \in 216..246 \/ c \in 248..255
IsUpperAZ(c) == c \in 65..90                                     \* [A-Z]

\* \b before index i.
WordBoundary(t, i) == IsWord(At(t, i - 1)) # IsWord(At(t, i))

\* The literal lit at index i.
Lit(t, i, lit) == \A k \in 1..Len(lit) : At(t, i + k - 1) = lit[k]

\* n digits from index i on.
Digits(t, i, n) == \A k \in 0..(n - 1) : IsReDigit(At(t, i + k))

\* The index after the longest run of digits (of white space) that starts at i.
DigitRunEnd(t, i) ==
    CHOOSE e \in i..(Len(t) + 1) :
        ~IsReDigit(At(t, e)) /\ \A j \in i..(e - 1) : IsReDigit(t[j])
SpaceRunEnd(t, i) ==
    CHOOSE e \in i..(Len(t) + 1) :
        ~IsSpace(At(t, e)) /\ \A j \in i..(e - 1) : IsSpace(t[j])

SetMax(S) == CHOOSE x \in S : \A y \in S : y <= x
SetMin(S) == CHOOSE x \in S : \A y \in S : x <= y

\* \b[A-Z]{3,4}\b
MatchProviderCode(t, i) ==
    IF ~((\A k \in 0..2 : IsUpperAZ(At(t, i + k))) /\ WordBoundary(t, i)) THEN 0
    ELSE IF IsUpperAZ(At(t, i + 3)) /\ WordBoundary(t, i + 4) THEN i + 4
    ELSE IF WordBoundary(t, i + 3) THEN i + 3
    ELSE 0

\* P\.?O\.?\s*Box\s+\d+
MatchPOBox(t, i) ==
    IF At(t, i) # 80 THEN 0
    ELSE LET o == IF At(t, i + 1) = 46 THEN i + 2 ELSE i + 1
         IN  IF At(t, o) # 79 THEN 0
             ELSE LET b == SpaceRunEnd(t, IF At(t, o + 1) = 46 THEN o + 2 ELSE o + 1)
                  IN  IF ~Lit(t, b, <<66, 111, 120>>) THEN 0
                      ELSE LET d == SpaceRunEnd(t, b + 3)
                           IN  IF d = b + 3 \/ ~IsReDigit(At(t, d)) THEN 0
                               ELSE DigitRunEnd(t, d)

\* \b\d{5}(?:-\d{4})?\b
MatchZip(t, i) ==
    IF ~(Digits(t, i, 5) /\ WordBoundary(t, i)) THEN 0
    ELSE IF At(t, i + 5) = 45 /\ Digits(t, i + 6, 4) /\ WordBoundary(t, i + 10) THEN i + 10
    ELSE IF WordBoundary(t, i + 5) THEN i + 5
    ELSE 0

\* \b800\d{7,10}\b
Match800(t, i) ==
    IF ~(Lit(t, i, <<56, 48, 48>>) /\ WordBoundary(t, i)) THEN 0
    ELSE LET ks == {k \in 7..10 : Digits(t, i + 3, k) /\ WordBoundary(t, i + 3 + k)}
         IN  IF ks = {} THEN 0 ELSE i + 3 + SetMax(ks)

\* \bD\d{4}\b
MatchProcedure(t, i) ==
    IF At(t, i) = 68 /\ WordBoundary(t, i) /\ Digits(t, i + 1, 4) /\ WordBoundary(t, i + 5)
    THEN i + 5 ELSE 0

\* \b\d+\.\d{2}\b
MatchAmount(t, i) ==
    IF ~(IsReDigit(At(t, i)) /\ WordBoundary(t, i)) THEN 0
    ELSE LET e == DigitRunEnd(t, i)
         IN  IF At(t, e) = 46 /\ Digits(t, e + 1, 2) /\ WordBoundary(t, e + 3)
             THEN e + 3 ELSE 0

\* (?:6,7,8,9,10|11,12,13,14,15)
MatchSequential(t, i) ==
    IF Lit(t, i, <<54, 44, 55, 44, 56, 44, 57, 44, 49, 48>>) THEN i + 10
    ELSE IF Lit(t, i, <<49, 49, 44, 49, 50, 44, 49, 51, 44, 49, 52, 44, 49, 53>>) THEN i + 14
    ELSE 0

\* ABCDEFGHIJKLMNOPQRSTUVWXYZ
MatchCharset(t, i) ==
    IF \A k \in 0..25 : At(t, i + k) = 65 + k THEN i + 26 ELSE 0

\* \d{3,}
MatchDigitSequence(t, i) ==
    IF Digits(t, i, 3) THEN DigitRunEnd(t, i) ELSE 0

\* \d{1,2}<sep>\d{1,2}<sep> from index i: the index after the second
\* separator, or 0.
TwoShortNumbers(t, i, sep) ==
    LET as == {a \in 1..2 : Digits(t, i, a) /\ At(t, i + a) = sep}
    IN  IF as = {} THEN 0
        ELSE LET j == i + SetMax(as) + 1
                 bs == {b \in 1..2 : Digits(t, j, b) /\ At(t, j + b) = sep}
             IN  IF bs = {} THEN 0 ELSE j + SetMax(bs) + 1

\* \d{1,2}/\d{1,2}/\d{2,4}
MatchDateSlash(t, i) ==
    LET y == TwoShortNumbers(t, i, 47)
    IN  IF y = 0 \/ ~Digits(t, y, 2) THEN 0
        ELSE y + SetMax({k \in 2..4 : Digits(t, y, k)})

\* \d{4}-\d{1,2}-\d{1,2}
MatchDateIso(t, i) ==
    IF ~(Digits(t, i, 4) /\ At(t, i + 4) = 45) THEN 0
    ELSE LET j == i + 5
             bs == {b \in 1..2 : Digits(t, j, b) /\ At(t, j + b) = 45}
         IN  IF bs = {} THEN 0
             ELSE LET d == j + SetMax(bs) + 1
                  IN  IF ~IsReDigit(At(t, d)) THEN 0
                      ELSE d + SetMax({k \in 1..2 : Digits(t, d, k)})

\* \d{1,2}-\d{1,2}-\d{4}
MatchDateDash(t, i) ==
    LET y == TwoShortNumbers(t, i, 45)
    IN  IF y = 0 \/ ~Digits(t, y, 4) THEN 0 ELSE y + 4

\* The matches re.findall keeps among the starts: the leftmost one, then the
\* leftmost one at or after its end, and so on.
RECURSIVE CountFrom(_, _, _)
CountFrom(starts, ends, pos) ==
    LET left == {i \in starts : i >= pos}
    IN  IF left = {} THEN 0
        ELSE 1 + CountFrom(starts, ends, ends[SetMin(left)])

\* len(re.findall(pattern, t)), where match_end[i] is the end of the pattern's
\* match at i (0 when it does not match there).
FindAllCount(t, match_end) ==
    LET starts == {i \in 1..Len(t) : match_end[i] # 0}
    IN  CountFrom(starts, match_end, 1)

\* ------------------------------------------------------------ classification

InsuranceScore(text) ==
    FindAllCount(text, [i \in 1..Len(text) |-> MatchProviderCode(text, i)])
        + FindAllCount(text, [i \in 1..Len(text) |-> MatchPOBox(text, i)])
        + FindAllCount(text, [i \in 1..Len(text) |-> MatchZip(text, i)])
        + FindAllCount(text, [i \in 1..Len(text) |-> Match800(text, i)])
ClinicalScore(text) ==
    FindAllCount(text, [i \in 1..Len(text) |-> MatchProcedure(text, i)])
        + FindAllCount(text, [i \in 1..Len(text) |-> MatchAmount(text, i)])
SequentialScore(text) == FindAllCount(text, [i \in 1..Len(text) |-> MatchSequential(text, i)])
CharsetScore(text) == FindAllCount(text, [i \in 1..Len(text) |-> MatchCharset(text, i)])

\* A variant of ClassificationLogic: ascii_percentage <= 1.0 is binary_data.
ClassificationLogicBinaryAtOne(insurance_score, clinical_score, sequential_score, charset_score, ascii_percentage) ==
    IF insurance_score > 10 THEN "insurance_providers"
    ELSE IF clinical_score > 5 THEN "clinical_data"
    ELSE IF sequential_score > 3 THEN "index_sequence"
    ELSE IF charset_score > 2 THEN "character_set"
    ELSE IF ~FracLess(Frac(1, 1), ascii_percentage) THEN "binary_data"
    ELSE IF FracLess(Frac(50, 1), ascii_percentage) THEN "text_data"
    ELSE "mixed_data"

\* The ladder of _classify_content_type, on the four scores and
\* info.ascii_percentage (a fraction).
ClassificationLogic(insurance_score, clinical_score, sequential_score, charset_score, ascii_percentage) ==
    IF insurance_score > 10 THEN "insurance_providers"
    ELSE IF clinical_score > 5 THEN "clinical_data"
    ELSE IF sequential_score > 3 THEN "index_sequence"
    ELSE IF charset_score > 2 THEN "character_set"
    ELSE IF FracLess(ascii_percentage, Frac(1, 1)) THEN "binary_data"
    ELSE IF FracLess(Frac(50, 1), ascii_percentage) THEN "text_data"
    ELSE "mixed_data"

\* BtrieveAnalyzer._classify_content_type
ClassifyContentType(text, info) ==
    ClassificationLogic(InsuranceScore(text), ClinicalScore(text), SequentialScore(text),
                        CharsetScore(text), info.ascii_percentage)

\* ------------------------------------------------------------ analysis

\* A variant of BtrieveFileInfo whose content_type defaults to "mixed_data".
BtrieveFileInfoMixedDefault(file_size) ==
    [file_size |-> file_size,
     page_size |-> 4096,
     header_size |-> 16,
     fcr_pages |-> 2,
     estimated_records |-> None,
     detected_record_size |-> None,
     content_type |-> "mixed_data",
     ascii_percentage |-> Frac(0, 1),
     digit_sequences |-> 0,
     date_patterns |-> 0,
     quality_score |-> Frac(0, 1)]

\* BtrieveFileInfo(filename, filepath, file_size) with the dataclass defaults.
BtrieveFileInfo(file_size) ==
    [file_size |-> file_size,
     page_size |-> 4096,
     header_size |-> 16,
     fcr_pages |-> 2,
     estimated_records |-> None,
     detected_record_size |-> None,
     content_type |-> "unknown",
     ascii_percentage |-> Frac(0, 1),
     digit_sequences |-> 0,
     date_patterns |-> 0,
     quality_score |-> Frac(0, 1)]

\* A variant of DataStart: one page is skipped.
DataStartOnePage == PAGE_SIZE

\* data_start, the offset analyze_file skips to.
DataStart == FCR_PAGES * PAGE_SIZE

\* BtrieveAnalyzer.analyze_file, for an analyzer built on the file as it is
\* (self.file_size is the file's size).
AnalyzeFile(ex, rd, f) ==
    IF ~ex \/ ~rd THEN Raise("BTRFileError")
    ELSE LET info == BtrieveFileInfo(f.size)
             data_pages == Read(f, DataStart, f.size)         \* data[data_start:]
             total_bytes == Len(data_pages)
         IN  IF total_bytes = 0 THEN Return(info)
             ELSE LET ascii_count ==
                          Cardinality({i \in 1..total_bytes : data_pages[i] \in 32..126})
                      info1 == [info EXCEPT
                                   !.ascii_percentage = Frac(ascii_count * 100, total_bytes)]
                      text == Latin1Decode(data_pages)
                      Ends(Match(_, _)) == [i \in 1..Len(text) |-> Match(text, i)]
                  IN  Return([info1 EXCEPT
                                 !.digit_sequences =
                                     FindAllCount(text, Ends(MatchDigitSequence)),
                                 !.date_patterns =
                                     FindAllCount(text, Ends(MatchDateSlash))
                                         + FindAllCount(text, Ends(MatchDateIso))
                                         + FindAllCount(text, Ends(MatchDateDash)),
                                 !.content_type = ClassifyContentType(text, info1)])

\* ------------------------------------------------------------ integrity

\* corruption_details entries.
FileTooSmall(len, min_size) == <<"File too small: ", len, " < ", min_size>>

\* A variant of MinSize: the FCR pages alone.
MinSizeFcrOnly == FCR_PAGES * PAGE_SIZE

\* min_size: the FCR pages and one data page.
MinSize == (FCR_PAGES + 1) * PAGE_SIZE

\* "Size validation" of check_integrity, on a file of len bytes.
SizeValidation(integrity_info, len) ==
    IF len >= MinSize
    THEN [integrity_info EXCEPT !.valid_size = TRUE]
    ELSE [integrity_info EXCEPT
             !.corruption_details = Append(@, FileTooSmall(len, MinSize)),
             !.corruption_detected = TRUE]

\* A variant of FcrPagesCheck: the check is skipped once corruption is detected.
FcrPagesCheckUnlessCorrupt(integrity_info, len) ==
    IF ~integrity_info.corruption_detected /\ len >= FCR_PAGES * PAGE_SIZE
    THEN [integrity_info EXCEPT
             !.has_fcr_pages = TRUE,
             !.data_pages = (len - FCR_PAGES * PAGE_SIZE) \div (PAGE_SIZE - HEADER_SIZE)]
    ELSE integrity_info

\* "FCR pages check" of check_integrity, on a file of len bytes.
FcrPagesCheck(integrity_info, len) ==
    IF len >= FCR_PAGES * PAGE_SIZE
    THEN [integrity_info EXCEPT
             !.has_fcr_pages = TRUE,
             !.data_pages = (len - FCR_PAGES * PAGE_SIZE) \div (PAGE_SIZE - HEADER_SIZE)]
    ELSE integrity_info

\* BtrieveAnalyzer.check_integrity
CheckIntegrity(ex, rd, f) ==
    LET integrity_info ==
            [file_exists |-> FALSE, readable |-> FALSE, valid_size |-> FALSE,
             has_fcr_pages |-> FALSE, data_pages |-> 0,
             corruption_detected |-> FALSE, corruption_details |-> <<>>]
    IN  IF ~ex
        THEN [integrity_info EXCEPT
                 !.corruption_details = Append(@, <<"File does not exist">>),
                 !.corruption_detected = TRUE]
        ELSE IF ~rd
        THEN [integrity_info EXCEPT
                 !.file_exists = TRUE,
                 !.corruption_details = Append(@, <<"Read error: ">>),
                 !.corruption_detected = TRUE]
        ELSE LET len == Len(ReadAll(f))
                 opened == [integrity_info EXCEPT !.file_exists = TRUE, !.readable = TRUE]
             IN  FcrPagesCheck(SizeValidation(opened, len), len)

\* ------------------------------------------------------------ cli.analyze

\* The exceptions the except clause of cli.analyze.analyze_file catches. The
\* BTR errors derive from BTRError(Exception) and are none of them.
CaughtByAnalyze == {"ValueError", "ZeroDivisionError", "AttributeError"}

\* A variant of DataSize: the FCR pages are not subtracted.
DataSizeWholeFile(info) == info.file_size

\* data_size = info.file_size - (2 * 4096)
DataSize(info) == info.file_size - (2 * 4096)

\* The try statement of cli.analyze.analyze_file, detect_record_size having
\* ended as detected.
RecordSizeDetection(info, detected) ==
    IF detected.raises \in CaughtByAnalyze THEN Return(info)
    ELSE IF detected.raises # "none" THEN Raise(detected.raises)
    ELSE LET record_size == detected.value.size
             info1 == [info EXCEPT
                          !.detected_record_size = Some(record_size),
                          !.quality_score = detected.value.quality]
         IN  IF record_size > 0
             THEN Return([info1 EXCEPT
                             !.estimated_records =
                                 Some(DataSize(info1) \div record_size)])
             ELSE Return(info1)

\* cli.analyze.analyze_file(filepath, max_records)
CliAnalyzeFile(ex, rd, f, max_records) ==
    Only({IF analysed.raises # "none" THEN analysed
          ELSE Only({RecordSizeDetection(analysed.value, detected) :
                        detected \in {DetectRecordSize(ex, rd, f, max_records)}}) :
             analysed \in {AnalyzeFile(ex, rd, f)}})         \* analyzer.analyze_file()

\* ------------------------------------------------------------ field extraction

\* The two-letter codes of the state pattern: AL, AK, AZ, ..., WY.
StateCodes ==
    {<<65, 76>>, <<65, 75>>, <<65, 90>>, <<65, 82>>, <<67, 65>>,
     <<67, 79>>, <<67, 84>>, <<68, 69>>, <<70, 76>>, <<71, 65>>,
     <<72, 73>>, <<73, 68>>, <<73, 76>>, <<73, 78>>, <<73, 65>>,
     <<75, 83>>, <<75, 89>>, <<76, 65>>, <<77, 69>>, <<77, 68>>,
     <<77, 65>>, <<77, 73>>, <<77, 78>>, <<77, 83>>, <<77, 79>>,
     <<77, 84>>, <<78, 69>>, <<78, 86>>, <<78, 72>>, <<78, 74>>,
     <<78, 77>>, <<78, 89>>, <<78, 67>>, <<78, 68>>, <<79, 72>>,
     <<79, 75>>, <<79, 82>>, <<80, 65>>, <<82, 73>>, <<83, 67>>,
     <<83, 68>>, <<84, 78>>, <<84, 88>>, <<85, 84>>, <<86, 84>>,
     <<86, 65>>, <<87, 65>>, <<87, 86>>, <<87, 73>>, <<87, 89>>}

EqualsIgnoreCase(c, upper) == c = upper \/ c = upper + 32       \* re.IGNORECASE

\* (P\.?O\.?\s*Box\s+\d+[A-Z]?) with re.IGNORECASE
MatchAddress(t, i) ==
    IF ~EqualsIgnoreCase(At(t, i), 80) THEN 0
    ELSE LET o == IF At(t, i + 1) = 46 THEN i + 2 ELSE i + 1
         IN  IF ~EqualsIgnoreCase(At(t, o), 79) THEN 0
             ELSE LET b == SpaceRunEnd(t, IF At(t, o + 1) = 46 THEN o + 2 ELSE o + 1)
                  IN  IF ~(/\ EqualsIgnoreCase(At(t, b), 66)
                           /\ EqualsIgnoreCase(At(t, b + 1), 79)
                           /\ EqualsIgnoreCase(At(t, b + 2), 88)) THEN 0
                      ELSE LET d == SpaceRunEnd(t, b + 3)
                           IN  IF d = b + 3 \/ ~IsReDigit(At(t, d)) THEN 0
                               ELSE LET e == DigitRunEnd(t, d)
                                    IN  IF At(t, e) \in (65..90) \cup (97..122)
                                        THEN e + 1 ELSE e

\* \b(AL|AK|...|WY)\b
MatchState(t, i) ==
    IF /\ <<At(t, i), At(t, i + 1)>> \in StateCodes
       /\ WordBoundary(t, i)
       /\ WordBoundary(t, i + 2)
    THEN i + 2 ELSE 0

\* match.group(1) if match else "", for re.search(pattern, text): the match
\* at the leftmost index where the pattern matches; match_end[i] is the end
\* of the pattern's match at i (0 when it does not match there).
SearchGroup(text, match_end) ==
    LET starts == {i \in 1..Len(text) : match_end[i] # 0}
    IN  IF starts = {} THEN <<>>
        ELSE SubSeq(text, SetMin(starts), match_end[SetMin(starts)] - 1)

\* A variant of PhoneEnd: the phone number is cut after its first 10 digits.
PhoneEndAfterTen(t, i) == IF Match800(t, i) = 0 THEN 0 ELSE i + 10

\* Where the match of the phone pattern \b(800\d{7,10})\b at i ends.
PhoneEnd(t, i) == Match800(t, i)

\* BtrieveAnalyzer._extract_basic_fields
ExtractBasicFields(text) ==
    [provider_code |->
         SearchGroup(text, [i \in 1..Len(text) |-> MatchProviderCode(text, i)]),
     address |-> SearchGroup(text, [i \in 1..Len(text) |-> MatchAddress(text, i)]),
     state |-> SearchGroup(text, [i \in 1..Len(text) |-> MatchState(text, i)]),
     zip_code |-> SearchGroup(text, [i \in 1..Len(text) |-> MatchZip(text, i)]),
     phone |-> SearchGroup(text, [i \in 1..Len(text) |-> PhoneEnd(text, i)]),
     procedure_code |->
         SearchGroup(text, [i \in 1..Len(text) |-> MatchProcedure(text, i)]),
     amount |-> SearchGroup(text, [i \in 1..Len(text) |-> MatchAmount(text, i)])]

\* [r.extracted_fields for r in extract_records(record_size, max_records)]
ExtractedFields(ex, rd, f, record_size, max_records) ==
    Only({IF records.raises # "none" THEN records
          ELSE Return([r \in 1..Len(records.value) |->
                          ExtractBasicFields(records.value[r].decoded_text)]) :
             records \in {ExtractRecords(ex, rd, f, record_size, max_records)}})

\* ------------------------------------------------------------ cli.export

\* The path of the Btrieve file, and os.path.splitext(os.path.basename(.))[0].
FilePath == "t.btr"
BaseName == "t"

\* An outcome together with the output files the call created or overwrote.
Writing(out, paths) ==
    [raises |-> out.raises, value |-> out.value, wrote |-> paths, header |-> <<>>]

\* sorted(list(field_names)): the names that extracted_fields can hold, in
\* the order of their strings, those not in field_names left out.
SortedFieldNames(field_names) ==
    SelectSeq(<<"address", "amount", "phone", "procedure_code", "provider_code",
                "state", "zip_code">>, LAMBDA name : name \in field_names)

\* "Collect all unique field names" of _export_csv and _export_excel
FieldNames(records) ==
    UNION {DOMAIN ExtractBasicFields(records[i].decoded_text) : i \in 1..Len(records)}

\* standard_fields of _export_csv
CsvStandardFields ==
    <<"record_num", "record_size", "decoded_text", "printable_chars", "has_digits",
      "has_alpha">>

\* A variant of ExcelStandardFields: the sheet has no raw_bytes column.
ExcelStandardFieldsWithoutRawBytes ==
    <<"record_num", "record_size", "decoded_text", "printable_chars", "has_digits",
      "has_alpha">>

\* standard_fields of _export_excel
ExcelStandardFields ==
    <<"record_num", "record_size", "raw_bytes", "decoded_text", "printable_chars",
      "has_digits", "has_alpha">>

\* The header row that _export_csv writes: all_fields.
CsvHeader(records) == CsvStandardFields \o SortedFieldNames(FieldNames(records))

\* The header row that _export_excel writes: all_fields.
ExcelHeader(records) == ExcelStandardFields \o SortedFieldNames(FieldNames(records))

\* The default output file name of export_file: None for any other format.
DefaultOutputFile(format_type) ==
    IF format_type = "csv" THEN Some(BaseName \o ".csv")
    ELSE IF format_type = "jsonl" THEN Some(BaseName \o ".jsonl")
    ELSE IF format_type = "sqlite" THEN Some(BaseName \o ".db")
    ELSE IF format_type = "excel" THEN Some(BaseName \o ".xlsx")
    ELSE IF format_type = "xml" THEN Some(BaseName \o ".xml")
    ELSE None

\* "Export based on format": the writer of each format creates output_file,
\* those of csv and excel with a header row; _export_excel and _export_xml
\* first import openpyxl and defusedxml, which are there or not (libs).
ExportBasedOnFormat(records, format_type, output_file, libs) ==
    IF format_type = "csv"
    THEN [Writing(Return(output_file), {output_file}) EXCEPT !.header = CsvHeader(records)]
    ELSE IF format_type \in {"jsonl", "sqlite"}
    THEN Writing(Return(output_file), {output_file})
    ELSE IF format_type \in {"excel", "xml"}
    THEN IF ~libs THEN Writing(Raise("ImportError"), {})
         ELSE IF format_type = "excel"
         THEN [Writing(Return(output_file), {output_file}) EXCEPT
                   !.header = ExcelHeader(records)]
         ELSE Writing(Return(output_file), {output_file})
    ELSE Writing(Raise("ValueError"), {})                \* Unsupported format

\* export_file from "Generate output filename" on, with the records extracted.
ExportRecords(records, format_type, output_file, asserts, libs) ==
    LET named == IF output_file = None THEN DefaultOutputFile(format_type)
                 ELSE output_file
    IN  IF records.raises # "none" THEN Writing(Raise(records.raises), {})
        ELSE IF records.value = <<>>
        THEN Writing(Raise("ValueError"), {})            \* No records found to export
        ELSE IF named = None /\ asserts
        THEN Writing(Raise("AssertionError"), {})        \* assert output_file is not None
        ELSE IF named = None
        THEN ExportBasedOnFormat(records.value, format_type, "None", libs)
        ELSE ExportBasedOnFormat(records.value, format_type, The(named), libs)

\* export_file from "Extract records" on, the record size being known or
\* its detection having failed.
ExportDetected(ex, rd, f, detected, format_type, record_size, max_records, output_file, asserts, libs) ==
    IF detected.raises # "none" THEN Writing(Raise(detected.raises), {})
    ELSE IF record_size = None /\ detected.value.size = 0
    THEN Writing(Raise("ValueError"), {})                \* Could not detect record size
    ELSE Only({ExportRecords(records, format_type, output_file, asserts, libs) :
                  records \in {ExtractRecords(ex, rd, f, detected.value.size, max_records)}})

\* cli.export.export_file(filepath, format_type, record_size, max_records,
\* output_file). asserts: the interpreter runs assert statements (no -O);
\* libs: the optional export libraries are installed.
ExportFile(ex, rd, f, format_type, record_size, max_records, output_file, asserts, libs) ==
    Only({ExportDetected(ex, rd, f, detected, format_type, record_size, max_records,
                         output_file, asserts, libs) :
             detected \in {IF record_size = None
                           THEN DetectRecordSize(ex, rd, f, 100)
                           ELSE Return([size |-> The(record_size)])}})

\* ------------------------------------------------------------ cli.main

\* ErrorHandler._get_exit_code
GetExitCode(error) ==
    IF error \in {"BTRFileError", "FileNotFoundError", "PermissionError"} THEN 2
    ELSE IF error \in {"BTRDataError", "ValueError"} THEN 3
    ELSE IF error = "BTRConfigError" THEN 4
    ELSE IF error = "BTRValidationError" THEN 5
    ELSE 1

\* cmd_analyze and cmd_export with the parser's defaults (no
\* --output, no --record-size unless given); interrupt: the user presses
\* Ctrl-C while the command runs.
Command(command, ex, rd, f, record_size, interrupt, asserts, libs) ==
    IF interrupt THEN Writing(Raise("KeyboardInterrupt"), {})
    ELSE IF command = "analyze"
    THEN Only({IF analysed.raises # "none" THEN Writing(Raise(analysed.raises), {})
               ELSE Writing(Return(0), {}) :
                  analysed \in {CliAnalyzeFile(ex, rd, f, 100)}})
    ELSE Only({IF exported.raises # "none" THEN exported
               ELSE [exported EXCEPT !.value = 0] :
                  exported \in {ExportFile(ex, rd, f, "csv", record_size, None, None,
                                           asserts, libs)}})

\* The commands of main() that are modelled; both are choices of the parser.
Commands == {"analyze", "export"}

\* The try statement of main() around the command that ran.
MainReturn(ran) ==
    IF ran.raises = "none" THEN ran                                 \* return exit_code
    ELSE IF ran.raises = "KeyboardInterrupt" THEN Writing(Return(130), ran.wrote)
    ELSE Writing(Return(1), ran.wrote)                              \* except Exception

\* cli.main(): command is "" when no command was given; parse_args() leaves
\* with SystemExit on a command that is not one of the parser's choices
\* ("check" is none).
Main(command, ex, rd, f, record_size, interrupt, asserts, libs) ==
    IF command = "" THEN Writing(Return(1), {})
    ELSE IF command \notin Commands THEN Writing(Raise("SystemExit"), {})
    ELSE Only({MainReturn(ran) :
                  ran \in {Command(command, ex, rd, f, record_size, interrupt,
                                   asserts, libs)}})

\* ------------------------------------------------------------ cli.schema

IsUpper(c) == c \in 65..90 \/ c \in 192..214 \/ c \in 216..222   \* str.isupper

\* record.decoded_text.ljust(record_size): padded with spaces on the right.
LJust(text, record_size) ==
    [i \in 1..Max(Len(text), record_size) |-> IF i <= Len(text) THEN text[i] ELSE 32]

\* The branch of the if / elif chain of _analyze_field_patterns that char
\* takes ("none" when it takes no branch).
CharClass(char) ==
    IF char = 0 THEN "null"
    ELSE IF IsDigit(char) THEN "digit"
    ELSE IF IsAlpha(char) THEN "alpha"
    ELSE IF IsSpace(char) THEN "space"
    ELSE IF IsPrintable(char) THEN "printable"
    ELSE "none"

\* _analyze_field_patterns on a nonempty list of records: position (from 0)
\* to its statistics.
AnalyzeFieldPatterns(records) ==
    LET record_size == records[1].record_size
        Char(r, pos) == LJust(records[r].decoded_text, record_size)[pos + 1]
        Count(pos, class) ==
            Cardinality({r \in 1..Len(records) : CharClass(Char(r, pos)) = class})
    IN  [pos \in 0..(record_size - 1) |->
            [ascii_count |-> Count(pos, "printable"),
             digit_count |-> Count(pos, "digit"),
             alpha_count |-> Count(pos, "alpha"),
             space_count |-> Count(pos, "space"),
             null_count |-> Count(pos, "null"),
             printable_count |-> Count(pos, "printable"),
             total_records |-> Len(records),
             unique_chars |-> {Char(r, pos) : r \in 1..Len(records)}]]

\* "Determine position type" of _detect_fields; (count / total) * 100 > t is
\* compared as count * 100 > t * total.
PositionType(stats) ==
    LET total_records == stats.total_records
    IN  IF stats.null_count * 100 > 80 * total_records THEN "null_padding"
        ELSE IF stats.digit_count * 100 > 70 * total_records THEN "digits"
        ELSE IF stats.alpha_count * 100 > 50 * total_records THEN "alpha"
        ELSE IF stats.ascii_count * 100 > 50 * total_records THEN "text"
        ELSE "mixed"

\* f"{prefix}{length}"
Named(prefix, length) == <<prefix, length>>

\* _infer_field_type_and_name: <<name, type>>
InferFieldTypeAndName(field_type, length, unique_chars, avg_digits) ==
    IF field_type = "digits"
    THEN IF length = 5 /\ FracLess(Frac(8, 10), avg_digits)
         THEN <<<<"zip_code">>, "ZIP_CODE">>
         ELSE IF length >= 10 /\ FracLess(Frac(9, 10), avg_digits)
         THEN <<<<"phone_number">>, "PHONE">>
         ELSE IF length = 4 /\ \A c \in unique_chars : IsDigit(c) \/ c = 68
         THEN <<<<"procedure_code">>, "PROCEDURE_CODE">>
         ELSE <<Named("digit_field_", length), "DIGITS">>
    ELSE IF field_type = "alpha"
    THEN IF length = 2 /\ \A c \in unique_chars : IsAlpha(c)
         THEN <<<<"state_code">>, "STATE">>
         ELSE IF length <= 4 /\ \A c \in unique_chars : IsUpper(c)
         THEN <<<<"provider_code">>, "PROVIDER_CODE">>
         ELSE <<Named("alpha_field_", length), "ALPHA">>
    ELSE IF field_type = "text"
    THEN IF length > 50 THEN <<<<"description">>, "TEXT">>
         ELSE IF length > 20 THEN <<<<"address">>, "ADDRESS">>
         ELSE <<Named("text_field_", length), "TEXT">>
    ELSE <<Named("field_", length), "MIXED">>

\* The sum of position_stats[pos][key] over the length >= 1 positions from
\* start_pos on, added up as the sums of its two halves.
RECURSIVE TotalOver(_, _, _, _)
TotalOver(position_stats, key, start_pos, length) ==
    IF length = 1 THEN position_stats[start_pos][key]
    ELSE TotalOver(position_stats, key, start_pos, length \div 2)
         + TotalOver(position_stats, key, start_pos + length \div 2,
                     length - length \div 2)

\* _create_field_info: None, or the field's dictionary.
CreateFieldInfo(start_pos, length, field_type, position_stats) ==
    IF length < 1 \/ field_type = None THEN None
    ELSE LET total_ascii == TotalOver(position_stats, "ascii_count", start_pos, length)
             total_digits == TotalOver(position_stats, "digit_count", start_pos, length)
             total_alpha == TotalOver(position_stats, "alpha_count", start_pos, length)
             total_records == position_stats[start_pos + length - 1].total_records
             unique_chars ==
                 UNION {position_stats[pos].unique_chars :
                           pos \in start_pos..(start_pos + length - 1)}
             inferred == InferFieldTypeAndName(The(field_type), length, unique_chars,
                             Frac(total_digits, total_records))
         IN  IF total_records = 0 THEN None
             ELSE Some([name |-> inferred[1],
                        type |-> inferred[2],
                        position |-> start_pos,
                        length |-> length,
                        ascii_percent |-> Frac(total_ascii * 100, total_records * length),
                        digit_percent |-> Frac(total_digits * 100, total_records * length),
                        alpha_percent |-> Frac(total_alpha * 100, total_records * length)])

\* fields with the field ending before position end appended, if
\* _create_field_info gives one.
EndField(st, end, position_stats) ==
    LET field_length == end - The(st.current_field_start)
        field_info == IF field_length > 0
                      THEN CreateFieldInfo(The(st.current_field_start), field_length,
                                           st.current_field_type, position_stats)
                      ELSE None
    IN  IF field_info # None THEN Append(st.fields, The(field_info)) ELSE st.fields

\* A variant of EndsField: only null padding ends a field.
EndsFieldOnPaddingOnly(pos_type, current_field_type) == pos_type = "null_padding"

\* "Check if we should end current field" of _detect_fields
EndsField(pos_type, current_field_type) ==
    pos_type = "null_padding" \/ Some(pos_type) # current_field_type

\* A variant of RestartAt: the new field starts after the position that
\* ended the last one.
RestartAfter(pos) == pos + 1

\* A variant of RestartAt: the new field starts on the last position of the
\* field that ended.
RestartBefore(pos) == pos - 1

\* "Start new field if not null padding": current_field_start = pos
RestartAt(pos) == pos

\* One iteration of the loop of _detect_fields, at position pos; st holds
\* fields, current_field_start and current_field_type.
FieldBoundary(position_stats, pos, st) ==
    LET pos_type == PositionType(position_stats[pos])
    IN  IF st.current_field_start = None
        THEN IF pos_type # "null_padding"
             THEN [st EXCEPT !.current_field_start = Some(pos),
                             !.current_field_type = Some(pos_type)]
             ELSE st
        ELSE IF EndsField(pos_type, st.current_field_type)
        THEN [fields |-> EndField(st, pos, position_stats),
              current_field_start |->
                  IF pos_type # "null_padding" THEN Some(RestartAt(pos)) ELSE None,
              current_field_type |->
                  IF pos_type # "null_padding" THEN Some(pos_type) ELSE None]
        ELSE st

\* The loop of _detect_fields over the positions from..(to - 1), entered
\* with st: the iterations of the first half, then those of the second.
RECURSIVE FieldLoop(_, _, _, _)
FieldLoop(position_stats, from, to, st) ==
    IF from >= to THEN st
    ELSE IF to - from = 1 THEN FieldBoundary(position_stats, from, st)
    ELSE Only({FieldLoop(position_stats, from + (to - from) \div 2, to, half) :
                  half \in {FieldLoop(position_stats, from,
                                      from + (to - from) \div 2, st)}})

\* _detect_fields
DetectFields(position_stats, record_size) ==
    LET st == FieldLoop(position_stats, 0, record_size,
                        [fields |-> <<>>, current_field_start |-> None,
                         current_field_type |-> None])
    IN  IF st.current_field_start # None                  \* Handle final field
        THEN EndField(st, record_size, position_stats)
        ELSE st.fields

\* detect_schema from "if not records" on.
SchemaOfRecords(records, record_size) ==
    IF records.raises # "none" THEN records
    ELSE IF records.value = <<>>
    THEN Return([record_size |-> record_size, records_analyzed |-> 0, fields |-> <<>>])
    ELSE Only({Return([record_size |-> record_size,
                       records_analyzed |-> Len(records.value),
                       fields |-> DetectFields(field_patterns, record_size)]) :
                  field_patterns \in {AnalyzeFieldPatterns(records.value)}})

\* detect_schema from "Extract records for analysis" on.
SchemaDetected(ex, rd, f, detected, record_size, max_records) ==
    IF detected.raises # "none" THEN detected
    ELSE IF record_size = None /\ detected.value.size = 0
    THEN Raise("ValueError")                             \* Could not detect record size
    ELSE Only({SchemaOfRecords(records, detected.value.size) :
                  records \in {ExtractRecords(ex, rd, f, detected.value.size,
                                              Some(max_records))}})

\* cli.schema.detect_schema(filepath, record_size, max_records)
DetectSchema(ex, rd, f, record_size, max_records) ==
    Only({SchemaDetected(ex, rd, f, detected, record_size, max_records) :
             detected \in {IF record_size = None
                           THEN DetectRecordSize(ex, rd, f, 100)
                           ELSE Return([size |-> The(record_size)])}})

\* ------------------------------------------------------------ cli.scan
\* File names are strings of code points.

\* str.lower(), on the letters A..Z
Lower(name) == [i \in 1..Len(name) |-> IF name[i] \in 65..90 THEN name[i] + 32 ELSE name[i]]

\* name.endswith(ext)
EndsWith(name, ext) ==
    /\ Len(ext) <= Len(name)
    /\ SubSeq(name, Len(name) - Len(ext) + 1, Len(name)) = ext

\* btrieve_extensions: .btr, .dat, .idx, .key
BtrieveExtensions == {<<46, 98, 116, 114>>, <<46, 100, 97, 116>>,
                      <<46, 105, 100, 120>>, <<46, 107, 101, 121>>}

\* cli.scan._is_potential_btrieve_file for the path of a regular file
\* (is_file) of file_size bytes whose base name is basename.
IsPotentialBtrieveFile(is_file, file_size, basename) ==
    LET filename == Lower(basename)
    IN  IF ~is_file THEN FALSE
        ELSE IF file_size < 8192 THEN FALSE
        ELSE IF \E ext \in BtrieveExtensions : EndsWith(filename, ext) THEN TRUE
        ELSE IF (\A i \in 1..Len(filename) : filename[i] # 46) /\ file_size % 4096 = 0
        THEN TRUE
        ELSE TRUE                   \* For other files, we'll let the analyzer decide

\* ------------------------------------------------------------ cli.compare

\* abs(a - b) > n for fractions a and b with positive denominators
FracApart(a, b, n) ==
    LET diff == a.num * b.den - b.num * a.den
    IN  (IF diff >= 0 THEN diff ELSE -diff) > n * a.den * b.den

\* (a + b) / 2, which the similarities show with one decimal
FracMean(a, b) == Frac(a.num * b.den + b.num * a.den, 2 * a.den * b.den)

\* A dictionary with one key.
Entry(key, value) == key :> value

\* The dictionary d, with key k set to v when cond holds.
With(d, cond, k, v) == IF cond THEN Entry(k, v) @@ d ELSE d

\* rec.raw_data: BtrieveRecord has the attribute raw_bytes and none called
\* raw_data.
RawData(rec) == Raise("AttributeError")

\* _compare_records from "Compare record counts" on: None once an iteration
\* of the loop reads raw_data.
RecordComparison(record_size, records1, records2, max_records) ==
    LET total_compared == Min(Min(Len(records1), Len(records2)), Max(max_records, 0))
        record_comparison ==
            [record_size |-> record_size,
             records_compared |-> Min(Min(Len(records1), Len(records2)), max_records),
             file1_record_count |-> Len(records1),
             file2_record_count |-> Len(records2)]
    IN  IF total_compared = 0 THEN Some(record_comparison)
        ELSE IF \E i \in 1..total_compared :
                    RawData(records1[i]).raises # "none" \/ RawData(records2[i]).raises # "none"
        THEN None                                            \* except Exception
        ELSE LET matching_records ==
                     Cardinality({i \in 1..total_compared :
                                     RawData(records1[i]).value = RawData(records2[i]).value})
             IN  Some(Entry("identical_records", matching_records)
                      @@ Entry("total_compared", total_compared)
                      @@ Entry("match_percentage",
                               Frac(matching_records * 100, total_compared))
                      @@ record_comparison)

\* _compare_records from "Extract records for comparison" on.
CompareExtracted(record_size, extracted1, extracted2, max_records) ==
    IF extracted1.raises # "none" \/ extracted2.raises # "none" THEN None
    ELSE IF extracted1.value = <<>> \/ extracted2.value = <<>> THEN None
    ELSE RecordComparison(record_size, extracted1.value, extracted2.value, max_records)

\* _compare_records with the two record sizes detected or not.
CompareDetected(file1, file2, detected1, detected2, max_records) ==
    IF detected1.raises # "none" \/ detected2.raises # "none" THEN None
    ELSE IF detected1.value.size = 0 \/ detected2.value.size = 0 THEN None
    ELSE IF detected1.value.size # detected2.value.size
    THEN Some([record_sizes_different |-> TRUE,
               file1_record_size |-> detected1.value.size,
               file2_record_size |-> detected2.value.size])
    ELSE Only({CompareExtracted(detected1.value.size, extracted1, extracted2, max_records) :
                  extracted1 \in {ExtractRecords(file1.ex, file1.rd, file1.f,
                                                 detected1.value.size, Some(max_records))},
                  extracted2 \in {ExtractRecords(file2.ex, file2.rd, file2.f,
                                                 detected2.value.size, Some(max_records))}})

\* _compare_records; a file is [ex, rd, f]: it exists, can be opened, holds f.
CompareRecords(file1, file2, max_records) ==
    Only({CompareDetected(file1, file2, detected1, detected2, max_records) :
             detected1 \in {DetectRecordSize(file1.ex, file1.rd, file1.f, max_records)},
             detected2 \in {DetectRecordSize(file2.ex, file2.rd, file2.f, max_records)}})

\* "Compare basic properties" of compare_files
Differences(info1, info2) ==
    With(With(With(With(<<>>,
        FracApart(info1.quality_score, info2.quality_score, 1), "quality_score",
            [file1 |-> info1.quality_score, file2 |-> info2.quality_score]),
        FracApart(info1.ascii_percentage, info2.ascii_percentage, 5), "ascii_percentage",
            [file1 |-> info1.ascii_percentage, file2 |-> info2.ascii_percentage]),
        info1.content_type # info2.content_type, "content_type",
            [file1 |-> info1.content_type, file2 |-> info2.content_type]),
        info1.file_size # info2.file_size, "file_size",
            [file1 |-> info1.file_size, file2 |-> info2.file_size,
             difference |-> IF info1.file_size >= info2.file_size
                            THEN info1.file_size - info2.file_size
                            ELSE info2.file_size - info1.file_size])

Similarities(info1, info2) ==
    With(With(With(With(<<>>,
        ~FracApart(info1.quality_score, info2.quality_score, 1), "quality_score",
            FracMean(info1.quality_score, info2.quality_score)),
        ~FracApart(info1.ascii_percentage, info2.ascii_percentage, 5), "ascii_percentage",
            FracMean(info1.ascii_percentage, info2.ascii_percentage)),
        info1.content_type = info2.content_type, "content_type", <<info1.content_type>>),
        info1.file_size = info2.file_size, "file_size", <<info1.file_size>>)

\* A variant of Assessment: a difference of size alone still counts as
\* identical.
AssessmentIgnoringSize(differences) ==
    IF DOMAIN differences \subseteq {"file_size"} THEN "files_appear_identical"
    ELSE IF Cardinality(DOMAIN differences) <= 2 THEN "minor_differences"
    ELSE "significant_differences"

\* "Overall assessment" of compare_files
Assessment(differences) ==
    IF DOMAIN differences = {} THEN "files_appear_identical"
    ELSE IF DOMAIN differences = {"file_size"} THEN "size_difference_only"
    ELSE IF Cardinality(DOMAIN differences) <= 2 THEN "minor_differences"
    ELSE "significant_differences"

\* compare_files once both files are analysed.
Comparison(file1, file2, info1, info2, max_records) ==
    Only({[file1 |-> [size |-> info1.file_size, content_type |-> info1.content_type,
                      ascii_percentage |-> info1.ascii_percentage,
                      quality_score |-> info1.quality_score],
           file2 |-> [size |-> info2.file_size, content_type |-> info2.content_type,
                      ascii_percentage |-> info2.ascii_percentage,
                      quality_score |-> info2.quality_score],
           differences |-> differences,
           similarities |-> Similarities(info1, info2),
           record_comparison |-> CompareRecords(file1, file2, max_records),
           assessment |-> Assessment(differences)] :
             differences \in {Differences(info1, info2)}})

\* cli.compare.compare_files(file1, file2, max_records)
CompareFiles(file1, file2, max_records) ==
    Only({IF analysed1.raises # "none" THEN analysed1
          ELSE IF analysed2.raises # "none" THEN analysed2
          ELSE Return(Comparison(file1, file2, analysed1.value, analysed2.value,
                                 max_records)) :
             analysed1 \in {AnalyzeFile(file1.ex, file1.rd, file1.f)},
             analysed2 \in {AnalyzeFile(file2.ex, file2.rd, file2.f)}})

\* ------------------------------------------------------------ cli.cmd_repair

\* What cmd_repair leaves: its exit code, the file it wrote to output_file
\* (None if it wrote none), whether it made the backup, and the record size
\* it rebuilt with.
Repaired(exit_code, output, backup, record_size) ==
    Return([exit_code |-> exit_code, output |-> output, backup |-> backup,
            record_size |-> record_size])

\* fcr_data followed by record_data = b''.join(record.raw_bytes for record in
\* records), every record being record_size bytes long.
Rebuilt(records, record_size) ==
    [size |-> FCR_PAGES * PAGE_SIZE + Len(records) * record_size,
     headLen |-> FCR_PAGES * PAGE_SIZE,
     headUnit |-> <<NUL>>,
     tail |-> [i \in 1..(Len(records) * record_size) |->
                  records[((i - 1) \div record_size) + 1].raw_bytes[((i - 1) % record_size) + 1]]]

\* "Extract records" and "Rebuild the file with valid records" of cmd_repair;
\* except Exception returns 1.
RebuildFrom(extracted, record_size, backup) ==
    IF extracted.raises # "none" THEN Repaired(1, None, backup, None)
    ELSE IF extracted.value = <<>> THEN Repaired(1, None, backup, None)  \* ValueError
    ELSE Repaired(0, Some(Rebuilt(extracted.value, record_size)), backup, Some(record_size))

\* The try statement of cmd_repair, the record size being given or detected.
Repair(ex, rd, f, sized, backup) ==
    IF sized.raises # "none" THEN Repaired(1, None, backup, None)
    ELSE IF sized.value.size = 0 THEN Repaired(1, None, backup, None)    \* ValueError
    ELSE Only({RebuildFrom(extracted, sized.value.size, backup) :
                  extracted \in {ExtractRecords(ex, rd, f, sized.value.size, None)}})

\* cmd_repair from "Perform integrity check first" on.
RepairChecked(ex, rd, f, record_size, fix_corruption, validate_only, backup, integrity_result) ==
    IF validate_only
    THEN Repaired(IF ~integrity_result.corruption_detected THEN 0 ELSE 1, None, backup, None)
    ELSE IF ~integrity_result.corruption_detected
    THEN Repaired(0, Some(f), backup, None)                 \* shutil.copy2
    ELSE IF ~fix_corruption THEN Repaired(1, None, backup, None)
    ELSE Only({Repair(ex, rd, f, sized, backup) :
                  sized \in {IF record_size = None
                             THEN DetectRecordSize(ex, rd, f, 100)
                             ELSE Return([size |-> The(record_size)])}})

\* cli.cmd_repair with the default output file; the backup fails on a file
\* that is missing or cannot be opened.
CmdRepair(ex, rd, f, record_size, fix_corruption, validate_only, backup) ==
    IF backup /\ (~ex \/ ~rd) THEN Repaired(1, None, FALSE, None)
    ELSE Only({RepairChecked(ex, rd, f, record_size, fix_corruption, validate_only,
                             backup, integrity_result) :
                  integrity_result \in {CheckIntegrity(ex, rd, f)}})

\* ------------------------------------------------------------ cli.cmd_batch
\* A path is [dir, stem, ext]; a pattern is a path whose parts may be "*".
\* The world is the file at ThePath (ex, rd, f) and the set of the other
\* paths where a file is (there).

ThePath == [dir |-> "a", stem |-> "t", ext |-> "btr"]           \* FilePath, in directory a
SameStemElsewhere == [dir |-> "b", stem |-> "t", ext |-> "btr"]
SameStemOtherExtension == [dir |-> "a", stem |-> "t", ext |-> "dat"]
OtherStem == [dir |-> "a", stem |-> "u", ext |-> "btr"]
OtherPaths == {SameStemElsewhere, SameStemOtherExtension, OtherStem}
BatchPaths == {ThePath} \cup OtherPaths

\* What a file at one of the other paths holds.
OtherFile == FileHolding("fcr", <<"a_64">>)

FileAt(path, world) ==
    IF path = ThePath THEN [ex |-> world.ex, rd |-> world.rd, f |-> world.f]
    ELSE [ex |-> path \in world.there, rd |-> TRUE, f |-> OtherFile]

\* os.path.isfile(path)
IsFile(path, world) == FileAt(path, world).ex

\* fnmatch of a path against a pattern, part by part
Matches(pattern, path) ==
    \A part \in {"dir", "stem", "ext"} : pattern[part] \in {"*", path[part]}

\* The orders a list of the elements of S can have.
Orders(S) ==
    {order \in [1..Cardinality(S) -> S] :
        \A i, j \in 1..Cardinality(S) : i # j => order[i] # order[j]}

\* glob.glob(pattern), or [pattern] if nothing matched.
Expanded(pattern, world) ==
    LET matched == {path \in BatchPaths : Matches(pattern, path) /\ IsFile(path, world)}
    IN  IF matched = {} THEN <<pattern>> ELSE CHOOSE order \in Orders(matched) : TRUE

\* "Expand glob patterns" of cmd_batch: all_files
RECURSIVE AllFiles(_, _)
AllFiles(files, world) ==
    IF files = <<>> THEN <<>>
    ELSE Expanded(Head(files), world) \o AllFiles(Tail(files), world)

\* A variant of ListOfSet: the list is kept as it is, duplicates included.
ListKept(all_files) == {all_files}

\* list(set(all_files)): the distinct paths, in an order that set() decides.
ListOfSet(all_files) == Orders({all_files[i] : i \in DOMAIN all_files})

\* valid_files, for each order of list(set(all_files))
ValidFiles(files, world) ==
    {SelectSeq(listed, LAMBDA path : path \in BatchPaths /\ IsFile(path, world)) :
        listed \in ListOfSet(AllFiles(files, world))}

\* os.path.join(output_dir, f"{Path(filepath).stem}.{format or 'db'}")
OutputFile(output_dir, filepath, format) ==
    <<output_dir, filepath.stem, IF format # "sqlite" THEN format ELSE "db">>

\* The result of process_file: the file, success, and the output file of an
\* export (the output of the other operations is left out).
Processed(filepath, out) ==
    [file |-> filepath, success |-> out.raises = "none",
     output |-> IF out.raises = "none" /\ DOMAIN out.value = {"exported"}
                THEN Some(out.value.exported) ELSE None]

\* process_file(filepath) of cmd_batch with the default output directory,
\* record size and max_records; except Exception gives a failure.
ProcessFile(filepath, world, operation, format) ==
    LET file == FileAt(filepath, world)
        done == Return([done |-> TRUE])
    IN  IF operation = "analyze"
        THEN Only({Processed(filepath, IF out.raises # "none" THEN out ELSE done) :
                      out \in {CliAnalyzeFile(file.ex, file.rd, file.f, 100)}})
        ELSE IF operation = "export"
        THEN IF format = None
             THEN Processed(filepath, Raise("Format required for export operation"))
             ELSE Only({Processed(filepath,
                                  IF out.raises # "none" THEN Raise(out.raises)
                                  ELSE Return([exported |-> out.value])) :
                           out \in {ExportFile(file.ex, file.rd, file.f, The(format), None,
                                               None,
                                               Some(OutputFile(".", filepath, The(format))),
                                               TRUE, TRUE)}})
        ELSE IF operation = "schema"
        THEN Only({Processed(filepath, IF out.raises # "none" THEN out ELSE done) :
                      out \in {DetectSchema(file.ex, file.rd, file.f, None, 1000)}})
        ELSE IF operation = "check"
        THEN Only({Processed(filepath, done) :
                      out \in {CheckIntegrity(file.ex, file.rd, file.f)}})
        ELSE Processed(filepath, Raise("none of the operations"))

\* cmd_batch under way: valid_files, the files not yet taken (queue), those
\* a worker is processing (running), the results of the futures that are
\* done and not yet taken by as_completed (done) and the results list.
\* value is None until cmd_batch returns.
Batch(args, pc, valid_files, queue, running, done, results, value) ==
    [op |-> "cmd_batch", args |-> args, raises |-> "none", value |-> value,
     pc |-> pc, valid_files |-> valid_files, queue |-> queue, running |-> running,
     done |-> done, results |-> results]

\* s without its i-th element
Without(s, i) == SubSeq(s, 1, i - 1) \o SubSeq(s, i + 1, Len(s))

\* success_count == len(results)
AllSucceeded(results) == \A i \in 1..Len(results) : results[i].success

\* ------------------------------------------------------------ the state machine

\* The arguments the operations are called with.
RecordSizeArgs == {-1, 0, 32, 40}
MaxRecordsArgs == {None, Some(0), Some(2)}
DetectMaxRecordsArgs == {1, 100}

NoCall == [op |-> "none", args |-> <<>>, raises |-> "none", value |-> <<>>]

Call(op, args, out) ==
    [op |-> op, args |-> args, raises |-> out.raises, value |-> out.value]

\* A call that may create output files: result.wrote holds their paths.
CallWriting(op, args, out) ==
    [op |-> op, args |-> args, raises |-> out.raises, value |-> out.value,
     wrote |-> out.wrote, header |-> out.header]

Init ==
    /\ exists = FALSE
    /\ readable = TRUE
    /\ head = "empty"
    /\ body = <<>>
    /\ result = NoCall

\* The file comes to exist, holding head h.
CreateFile(h) ==
    /\ ~exists
    /\ exists' = TRUE
    /\ readable' = TRUE
    /\ head' = h
    /\ body' = <<>>
    /\ result' = NoCall

\* Bytes are appended to a file that ends with its FCR pages.
AppendData(p) ==
    /\ exists
    /\ head = "fcr"
    /\ Len(body) < MaxWrites
    /\ body' = Append(body, p)
    /\ result' = NoCall
    /\ UNCHANGED <<exists, readable, head>>

\* The file's permissions change.
Chmod ==
    /\ exists
    /\ readable' = ~readable
    /\ result' = NoCall
    /\ UNCHANGED <<exists, head, body>>

\* The file is removed.
Unlink ==
    /\ exists
    /\ exists' = FALSE
    /\ readable' = TRUE
    /\ head' = "empty"
    /\ body' = <<>>
    /\ result' = NoCall

\* BtrieveAnalyzer(filepath).extract_records(record_size, max_records)
CallExtractRecords(record_size, max_records) ==
    /\ result = NoCall
    /\ result' = Call("extract_records", <<record_size, max_records>>,
                      ExtractRecords(exists, readable, TheFile, record_size, max_records))
    /\ UNCHANGED <<exists, readable, head, body>>

\* BtrieveAnalyzer(filepath).detect_record_size(max_records)
CallDetectRecordSize(max_records) ==
    /\ result = NoCall
    /\ result' = Call("detect_record_size", <<max_records>>,
                      DetectRecordSize(exists, readable, TheFile, max_records))
    /\ UNCHANGED <<exists, readable, head, body>>

\* BtrieveAnalyzer(filepath).analyze_file()
CallAnalyzeFile ==
    /\ result = NoCall
    /\ result' = Call("analyze_file", <<>>, AnalyzeFile(exists, readable, TheFile))
    /\ UNCHANGED <<exists, readable, head, body>>

\* cli.analyze.analyze_file(filepath, max_records)
CallCliAnalyzeFile(max_records) ==
    /\ result = NoCall
    /\ result' = Call("cli_analyze_file", <<max_records>>,
                      CliAnalyzeFile(exists, readable, TheFile, max_records))
    /\ UNCHANGED <<exists, readable, head, body>>

\* BtrieveAnalyzer(filepath).check_integrity()
CallCheckIntegrity ==
    /\ result = NoCall
    /\ result' = Call("check_integrity", <<>>,
                      Return(CheckIntegrity(exists, readable, TheFile)))
    /\ UNCHANGED <<exists, readable, head, body>>

\* The caller is done with the last call's outcome.
Done ==
    /\ result # NoCall
    /\ result' = NoCall
    /\ UNCHANGED <<exists, readable, head, body>>

Next ==
    \/ \E h \in Heads : CreateFile(h)
    \/ \E p \in DataPieces : AppendData(p)
    \/ Chmod
    \/ Unlink
    \/ \E record_size \in RecordSizeArgs, max_records \in MaxRecordsArgs :
           CallExtractRecords(record_size, max_records)
    \/ \E max_records \in DetectMaxRecordsArgs : CallDetectRecordSize(max_records)
    \/ CallAnalyzeFile
    \/ \E max_records \in DetectMaxRecordsArgs : CallCliAnalyzeFile(max_records)
    \/ CallCheckIntegrity
    \/ Done

Spec == Init /\ [][Next]_vars

\* ------------------------------------------------------------ the command line

\* What the command line is run on, and with which arguments.
CliDataPieces == {"john_4", "abc_1", "a_64"}
ExportFormats == {"csv", "excel", "pdf"}
ExportRecordSizeArgs == {None, Some(0), Some(64)}
OutputFileArgs == {None, Some("out.dat")}
MainCommands == {"", "analyze", "check", "export"}
MainRecordSizeArgs == {None, Some(0)}

\* cli.export.export_file(FilePath, format_type, record_size, None, output_file)
CallExportFile(format_type, record_size, output_file, asserts, libs) ==
    /\ result = NoCall
    /\ \E out \in {ExportFile(exists, readable, TheFile, format_type, record_size,
                               None, output_file, asserts, libs)} :
           result' = CallWriting("export_file",
                                 <<format_type, record_size, output_file, asserts, libs>>,
                                 out)
    /\ UNCHANGED <<exists, readable, head, body>>

\* cli.main() with the given command on FilePath
CallMain(command, record_size, interrupt, asserts, libs) ==
    /\ result = NoCall
    /\ \E out \in {Main(command, exists, readable, TheFile, record_size,
                         interrupt, asserts, libs)} :
           result' = CallWriting("main",
                                 <<command, record_size, interrupt, asserts, libs>>, out)
    /\ UNCHANGED <<exists, readable, head, body>>

CliNext ==
    \/ \E h \in Heads : CreateFile(h)
    \/ \E p \in CliDataPieces : AppendData(p)
    \/ Chmod
    \/ Unlink
    \/ \E format_type \in ExportFormats, record_size \in ExportRecordSizeArgs,
          output_file \in OutputFileArgs, asserts \in BOOLEAN, libs \in BOOLEAN :
           CallExportFile(format_type, record_size, output_file, asserts, libs)
    \/ \E command \in MainCommands, record_size \in MainRecordSizeArgs,
          interrupt \in BOOLEAN, asserts \in BOOLEAN, libs \in BOOLEAN :
           CallMain(command, record_size, interrupt, asserts, libs)
    \/ Done

CliSpec == Init /\ [][CliNext]_vars

\* ------------------------------------------------------------ schema detection
\* The file, with detect_schema called on it.

SchemaDataPieces == {"john_4", "zip_6", "alpha5_2", "gap_2", "proc_6", "claim_1"}
SchemaRecordSizeArgs == {None, Some(5), Some(10), Some(64)}
SchemaMaxRecordsArgs == {3, 1000}
FieldsRecordSizeArgs == {5, 6, 64}
FieldsMaxRecordsArgs == {Some(1), Some(2)}

\* cli.schema.detect_schema(FilePath, record_size, max_records)
CallDetectSchema(record_size, max_records) ==
    /\ result = NoCall
    /\ \E out \in {DetectSchema(exists, readable, TheFile, record_size, max_records)} :
           result' = Call("detect_schema", <<record_size, max_records>>, out)
    /\ UNCHANGED <<exists, readable, head, body>>

\* The extracted_fields of the records that extract_records(record_size,
\* max_records) returns.
CallExtractedFields(record_size, max_records) ==
    /\ result = NoCall
    /\ \E out \in {ExtractedFields(exists, readable, TheFile, record_size, max_records)} :
           result' = Call("extracted_fields", <<record_size, max_records>>, out)
    /\ UNCHANGED <<exists, readable, head, body>>

SchemaNext ==
    \/ \E h \in Heads : CreateFile(h)
    \/ \E p \in SchemaDataPieces : AppendData(p)
    \/ Chmod
    \/ Unlink
    \/ \E record_size \in SchemaRecordSizeArgs, max_records \in SchemaMaxRecordsArgs :
           CallDetectSchema(record_size, max_records)
    \/ \E record_size \in FieldsRecordSizeArgs, max_records \in FieldsMaxRecordsArgs :
           CallExtractedFields(record_size, max_records)
    \/ Done

SchemaSpec == Init /\ [][SchemaNext]_vars

\* ------------------------------------------------------------ scanning
\* The file, under one of several names, put to the scanner's test.

\* data.btr, DATA.BTR, x.dat, a.idx, k.key, notes.txt, data.btr.bak, data,
\* btr (no extension)
ScanNames ==
    {<<100, 97, 116, 97, 46, 98, 116, 114>>,
     <<68, 65, 84, 65, 46, 66, 84, 82>>,
     <<120, 46, 100, 97, 116>>,
     <<97, 46, 105, 100, 120>>,
     <<107, 46, 107, 101, 121>>,
     <<110, 111, 116, 101, 115, 46, 116, 120, 116>>,
     <<100, 97, 116, 97, 46, 98, 116, 114, 46, 98, 97, 107>>,
     <<100, 97, 116, 97>>,
     <<98, 116, 114>>}

ScanDataPieces == {"abc_1", "a_64", "fixture4k"}

\* _is_potential_btrieve_file(path), the file being known as basename
CallIsPotentialBtrieveFile(basename) ==
    /\ result = NoCall
    /\ result' = Call("_is_potential_btrieve_file", <<basename>>,
                      Return([candidate |->
                                  IsPotentialBtrieveFile(exists, TheFile.size, basename)]))
    /\ UNCHANGED <<exists, readable, head, body>>

ScanNext ==
    \/ \E h \in Heads : CreateFile(h)
    \/ \E p \in ScanDataPieces : AppendData(p)
    \/ Chmod
    \/ Unlink
    \/ \E basename \in ScanNames : CallIsPotentialBtrieveFile(basename)
    \/ Done

ScanSpec == Init /\ [][ScanNext]_vars

\* ------------------------------------------------------------ comparing
\* The file compared with a second file, which is there or not and holds
\* one of a few contents.

CompareDataPieces == {"john_4", "abc_1", "a_64"}
SecondHeads == {"fixture4k", "fcr"}
SecondBodies == {<<>>, <<"john_4">>, <<"john_4", "abc_1">>, <<"a_64">>, <<"a_64", "john_4">>}
CompareMaxRecordsArgs == {2, 100}

\* compare_files(FilePath, file2, max_records), file2 being there or not
\* (ex2) and holding head h2 followed by b2.
CallCompareFiles(ex2, h2, b2, max_records) ==
    /\ result = NoCall
    /\ h2 = "fcr" \/ b2 = <<>>
    /\ \E out \in {CompareFiles([ex |-> exists, rd |-> readable, f |-> TheFile],
                                  [ex |-> ex2, rd |-> TRUE, f |-> FileHolding(h2, b2)],
                                  max_records)} :
           result' = Call("compare_files", <<ex2, h2, b2, max_records>>, out)
    /\ UNCHANGED <<exists, readable, head, body>>

CompareNext ==
    \/ \E h \in Heads : CreateFile(h)
    \/ \E p \in CompareDataPieces : AppendData(p)
    \/ Chmod
    \/ Unlink
    \/ \E ex2 \in BOOLEAN, h2 \in SecondHeads, b2 \in SecondBodies,
          max_records \in CompareMaxRecordsArgs :
           CallCompareFiles(ex2, h2, b2, max_records)
    \/ Done

CompareSpec == Init /\ [][CompareNext]_vars

\* ------------------------------------------------------------ repairing

RepairDataPieces == {"john_4", "abc_1", "a_64"}
RepairRecordSizeArgs == {None, Some(0), Some(5), Some(64)}

\* cmd_repair on FilePath
CallCmdRepair(record_size, fix_corruption, validate_only, backup) ==
    /\ result = NoCall
    /\ \E out \in {CmdRepair(exists, readable, TheFile, record_size, fix_corruption,
                               validate_only, backup)} :
           result' = Call("cmd_repair",
                          <<record_size, fix_corruption, validate_only, backup>>, out)
    /\ UNCHANGED <<exists, readable, head, body>>

RepairNext ==
    \/ \E h \in Heads : CreateFile(h)
    \/ \E p \in RepairDataPieces : AppendData(p)
    \/ Chmod
    \/ Unlink
    \/ \E record_size \in RepairRecordSizeArgs, fix_corruption \in BOOLEAN,
          validate_only \in BOOLEAN, backup \in BOOLEAN :
           CallCmdRepair(record_size, fix_corruption, validate_only, backup)
    \/ Done

RepairSpec == Init /\ [][RepairNext]_vars

\* ------------------------------------------------------------ batches
\* cmd_batch on ThePath and the other paths, step by step: the main thread
\* and the workers of the thread pool take their steps in any order.

BatchHeads == {"fixture4k", "fcr"}
BatchDataPieces == {"a_64"}
BatchFilesArgs ==
    {<<ThePath>>, <<ThePath, ThePath>>, <<OtherStem>>,
     <<SameStemElsewhere, ThePath>>,
     <<[dir |-> "a", stem |-> "*", ext |-> "btr"], ThePath>>,
     <<[dir |-> "*", stem |-> "t", ext |-> "*"]>>}
BatchThere == {{}, {SameStemElsewhere}, {SameStemElsewhere, SameStemOtherExtension}}
\* --operation and --format
BatchOperationArgs ==
    {<<"analyze", None>>, <<"export", None>>, <<"export", Some("csv")>>, <<"check", None>>}
BatchParallelArgs == {1, 2}

World(there) == [ex |-> exists, rd |-> readable, f |-> TheFile, there |-> there]

\* cmd_batch up to "Process files": it returns 1 with no valid file.
CallCmdBatch(files, there, operation, format, parallel) ==
    /\ result = NoCall
    /\ \E valid_files \in ValidFiles(files, World(there)) :
           result' = IF valid_files = <<>>
                     THEN Batch(<<files, there, operation, format, parallel>>, "returned",
                                valid_files, <<>>, <<>>, <<>>, <<>>, Some(1))
                     ELSE Batch(<<files, there, operation, format, parallel>>, "processing",
                                valid_files, valid_files, <<>>, <<>>, <<>>, None)
    /\ UNCHANGED <<exists, readable, head, body>>

Processing == result.op = "cmd_batch" /\ result.pc = "processing"

\* One iteration of "for filepath in valid_files"
ProcessNext ==
    /\ Processing
    /\ result.args[5] <= 1
    /\ result.queue # <<>>
    /\ \E processed \in {ProcessFile(Head(result.queue), World(result.args[2]),
                                      result.args[3], result.args[4])} :
           result' = [result EXCEPT !.queue = Tail(@),
                                    !.results = Append(@, processed)]
    /\ UNCHANGED <<exists, readable, head, body>>

\* A worker of the pool takes the next submitted call of process_file.
WorkerStarts ==
    /\ Processing
    /\ result.args[5] > 1
    /\ result.queue # <<>>
    /\ Len(result.running) < result.args[5]
    /\ result' = [result EXCEPT !.queue = Tail(@),
                                !.running = Append(@, Head(result.queue))]
    /\ UNCHANGED <<exists, readable, head, body>>

\* A worker ends its call of process_file: the future is done.
WorkerFinishes(i) ==
    /\ Processing
    /\ i \in 1..Len(result.running)
    /\ \E processed \in {ProcessFile(result.running[i], World(result.args[2]),
                                      result.args[3], result.args[4])} :
           result' = [result EXCEPT !.running = Without(@, i),
                                    !.done = Append(@, processed)]
    /\ UNCHANGED <<exists, readable, head, body>>

\* as_completed yields a future that is done: results.append(future.result())
Collect(i) ==
    /\ Processing
    /\ i \in 1..Len(result.done)
    /\ result' = [result EXCEPT !.done = Without(@, i),
                                !.results = Append(@, result.done[i])]
    /\ UNCHANGED <<exists, readable, head, body>>

\* "Display results": return 0 if success_count == len(results) else 1
ReturnBatch ==
    /\ Processing
    /\ result.queue = <<>> /\ result.running = <<>> /\ result.done = <<>>
    /\ result' = [result EXCEPT !.pc = "returned",
                                !.value = Some(IF AllSucceeded(result.results)
                                               THEN 0 ELSE 1)]
    /\ UNCHANGED <<exists, readable, head, body>>

\* The command has returned and the next one can be given.
BatchDone ==
    /\ result.op = "cmd_batch" /\ result.pc = "returned"
    /\ result' = NoCall
    /\ UNCHANGED <<exists, readable, head, body>>

BatchNext ==
    \/ \E h \in BatchHeads : CreateFile(h) /\ result = NoCall
    \/ \E p \in BatchDataPieces : AppendData(p) /\ result = NoCall
    \/ Unlink /\ result = NoCall
    \/ \E files \in BatchFilesArgs, there \in BatchThere, operation \in BatchOperationArgs,
          parallel \in BatchParallelArgs :
           CallCmdBatch(files, there, operation[1], operation[2], parallel)
    \/ ProcessNext
    \/ WorkerStarts
    \/ \E i \in 1..Cardinality(BatchPaths) : WorkerFinishes(i)
    \/ \E i \in 1..Cardinality(BatchPaths) : Collect(i)
    \/ ReturnBatch
    \/ BatchDone

BatchSpec == Init /\ [][BatchNext]_vars

\* ------------------------------------------------------------ the claims

\* The data region of the file on disk: the bytes from offset 8192 on.
DataRegion ==
    LET f == TheFile
    IN  [i \in 1..Max(0, f.size - 8192) |-> FileByte(f, 8192 + i - 1)]

\* What candidate size R yields under a cap of m records.
Yield(R, m) == ExtractRecords(exists, readable, TheFile, R, Some(m))
Yields(R, m) == Yield(R, m).raises = "none" /\ Yield(R, m).value # <<>>
ScoreOf(R, m) == CalculateQualityScore(Yield(R, m).value)

\* C1: detect_record_size tries 32, 64, 128, 256, 512, 1024 in that order, and
\* the size it returns is a candidate that yields records, no yielding
\* candidate scores higher, and no earlier yielding candidate scores the same.
C1_DetectReturnsEarliestBest ==
    (result.op = "detect_record_size" /\ result.raises = "none") =>
        LET m == result.args[1]
            n == Len(COMMON_RECORD_SIZES)
        IN  /\ COMMON_RECORD_SIZES = <<32, 64, 128, 256, 512, 1024>>
            /\ \E b \in 1..n :
                  /\ result.value.size = COMMON_RECORD_SIZES[b]
                  /\ Yields(COMMON_RECORD_SIZES[b], m)
                  /\ \A j \in 1..n :
                        Yields(COMMON_RECORD_SIZES[j], m) =>
                            /\ ~FracLess(ScoreOf(COMMON_RECORD_SIZES[b], m),
                                         ScoreOf(COMMON_RECORD_SIZES[j], m))
                            /\ (j < b => FracLess(ScoreOf(COMMON_RECORD_SIZES[j], m),
                                                  ScoreOf(COMMON_RECORD_SIZES[b], m)))

\* C1's case: the returned size replaced an earlier candidate, and a later
\* candidate with exactly the same score did not replace it.
C1_Witness ==
    /\ result.op = "detect_record_size"
    /\ result.raises = "none"
    /\ result.value.size = 64
    /\ Yields(32, result.args[1])
    /\ Yields(128, result.args[1])
    /\ FracEq(ScoreOf(128, result.args[1]), ScoreOf(64, result.args[1]))

\* C2: for an existing readable file, detect_record_size fails with a data
\* error exactly when no candidate yields a record; when some candidate yields
\* records, whatever they hold, it returns.
C2_FailsIffNoCandidateYields ==
    (result.op = "detect_record_size" /\ exists /\ readable) =>
        LET m == result.args[1]
            some == \E i \in 1..Len(COMMON_RECORD_SIZES) : Yields(COMMON_RECORD_SIZES[i], m)
        IN  /\ (result.raises = "BTRDataError") <=> ~some
            /\ some => result.raises = "none"

\* C3: for an existing readable file and R > 0, extract_records returns
\* min(N, |D| div R) records (|D| div R without a cap), the i-th with
\* record_num = i and raw_bytes = D[(i-1)R .. iR).
C3_ExtractSlicesDataRegion ==
    (result.op = "extract_records" /\ exists /\ readable /\ result.args[1] > 0) =>
        LET R == result.args[1]
            N == result.args[2]
            D == DataRegion
            whole == Len(D) \div R
        IN  /\ result.raises = "none"
            /\ Len(result.value) = IF N = None THEN whole ELSE Min(The(N), whole)
            /\ \A i \in 1..Len(result.value) :
                  /\ result.value[i].record_num = i
                  /\ Len(result.value[i].raw_bytes) = R
                  /\ result.value[i].raw_bytes = SubSeq(D, (i - 1) * R + 1, i * R)

\* C3's case: the cap cuts the records short of a data region that ends with
\* a partial slice.
C3_Witness ==
    /\ result.op = "extract_records"
    /\ result.raises = "none"
    /\ result.args[1] > 0
    /\ result.args[2] = Some(2)
    /\ Len(result.value) = 2
    /\ Len(DataRegion) \div result.args[1] > 2
    /\ Len(DataRegion) % result.args[1] # 0

\* C4: on an existing file, R <= 0 is a validation error with no records; on
\* a readable one, R greater than the data region (an empty data region when
\* the file is shorter than 8192 bytes) gives an empty list and no error.
C4_ExtractEdgeCases ==
    (result.op = "extract_records" /\ exists) =>
        /\ result.args[1] <= 0 =>
               (result.raises = "BTRValidationError" /\ result.value = <<>>)
        /\ (readable /\ result.args[1] > Len(DataRegion)) =>
               (result.raises = "none" /\ result.value = <<>>)
        /\ TheFile.size < 8192 => DataRegion = <<>>

\* C4's case: a file shorter than 8192 bytes, read with R > 0.
C4_Witness ==
    /\ result.op = "extract_records"
    /\ exists /\ readable
    /\ TheFile.size = 4096
    /\ result.args[1] = 32
    /\ result.raises = "none"
    /\ result.value = <<>>

\* The report of a check_integrity call.
Report == result.value

C7_OnePageFilePasses ==
    (result.op = "check_integrity" /\ exists /\ readable /\ TheFile.size = 4096) =>
        /\ Report.file_exists
        /\ Report.readable
        /\ Report.valid_size
        /\ Report.has_fcr_pages
        /\ ~Report.corruption_detected

\* The text analyze_file classifies, and the ASCII bytes in it.
DataText == Latin1Decode(DataRegion)
AsciiCount == Cardinality({i \in 1..Len(DataRegion) : DataRegion[i] \in 32..126})

\* The rung of the ladder that decides the data region's content type.
Rung ==
    IF InsuranceScore(DataText) > 10 THEN "insurance_providers"
    ELSE IF ClinicalScore(DataText) > 5 THEN "clinical_data"
    ELSE IF SequentialScore(DataText) > 3 THEN "index_sequence"
    ELSE IF CharsetScore(DataText) > 2 THEN "character_set"
    ELSE IF 100 * AsciiCount < Len(DataRegion) THEN "binary_data"
    ELSE IF 100 * AsciiCount > 50 * Len(DataRegion) THEN "text_data"
    ELSE "mixed_data"

\* C8: for a non-empty data region, the content type is the first matching
\* rung: insurance_score > 10, clinical_score > 5, sequential_score > 3,
\* charset_score > 2, ascii_percentage < 1 (binary_data), ascii_percentage >
\* 50 (text_data), else mixed_data; exactly 1 or exactly 50 percent with low
\* scores is mixed_data.
C8_ClassificationLadder ==
    (result.op = "analyze_file" /\ result.raises = "none" /\ DataRegion # <<>>) =>
        result.value.content_type = Rung

\* C8's case: a data region of exactly 1 percent ASCII with low scores.
C8_Witness ==
    /\ result.op = "analyze_file"
    /\ result.raises = "none"
    /\ DataRegion # <<>>
    /\ 100 * AsciiCount = Len(DataRegion)
    /\ InsuranceScore(DataText) <= 10
    /\ ClinicalScore(DataText) <= 5
    /\ SequentialScore(DataText) <= 3
    /\ CharsetScore(DataText) <= 2
    /\ result.value.content_type = "mixed_data"

ContentTypes ==
    {"insurance_providers", "clinical_data", "index_sequence", "character_set",
     "binary_data", "text_data", "mixed_data", "analysis_failed"}

InPercentRange(x) == ~FracLess(x, Frac(0, 1)) /\ ~FracLess(Frac(100, 1), x)

C11_CliAnalyzeAlwaysReturns ==
    result.op = "cli_analyze_file" =>
        /\ (exists /\ readable) =>
               /\ result.raises = "none"
               /\ result.value.file_size = TheFile.size
               /\ DetectRecordSize(exists, readable, TheFile, result.args[1]).raises # "none" =>
                      /\ result.value.detected_record_size = None
                      /\ result.value.estimated_records = None
        /\ result.raises = "BTRFileError" => ~exists

\* C12: whenever cli.analyze.analyze_file returns a summary with
\* detected_record_size set, estimated_records is
\* floor((file_size - 8192) / detected_record_size), is at least 1, and
\* estimated_records * detected_record_size <= file_size - fcr_pages * page_size.
C12_EstimatedRecords ==
    (/\ result.op = "cli_analyze_file"
     /\ result.raises = "none"
     /\ result.value.detected_record_size # None) =>
        LET size == The(result.value.detected_record_size)
        IN  /\ result.value.file_size = TheFile.size
            /\ result.value.estimated_records # None
            /\ The(result.value.estimated_records) = (TheFile.size - 8192) \div size
            /\ The(result.value.estimated_records) >= 1
            /\ The(result.value.estimated_records) * size
                   <= TheFile.size - FCR_PAGES * PAGE_SIZE

\* C12's case: a detected size that does not divide the data region.
C12_Witness ==
    /\ result.op = "cli_analyze_file"
    /\ result.raises = "none"
    /\ result.value.detected_record_size # None
    /\ result.value.estimated_records # None
    /\ (TheFile.size - 8192) % The(result.value.detected_record_size) # 0

\* C15: when the file exists but cannot be read, detect_record_size surfaces
\* a file error (BTRFileError): the extractor's read failure is neither
\* swallowed nor turned into a data error.
C15_UnreadableSurfacesFileError ==
    (result.op = "detect_record_size" /\ exists /\ ~readable) =>
        /\ ExtractRecords(exists, readable, TheFile, 32, Some(result.args[1])).raises
               = "BTRFileError"
        /\ result.raises = "BTRFileError"

\* The failure of the command main() dispatched, "none" when it returned.
Failure ==
    Command(result.args[1], exists, readable, TheFile, result.args[2], result.args[3],
            result.args[4], result.args[5]).raises

\* C13: main() maps the kind of failure of the dispatched command to its exit
\* code: 0 on success, 2 for a file error, 3 for a data-processing error, 4
\* for a configuration error, 5 for a validation error, 1 for any other
\* failure and 130 on KeyboardInterrupt (the mapping of
\* ErrorHandler._get_exit_code).
C13_ExitCodeByFailureKind ==
    (result.op = "main" /\ result.args[1] \in Commands) =>
        /\ result.raises = "none"
        /\ Failure = "BTRFileError" => result.value = 2
        /\ Failure = "BTRDataError" => result.value = 3
        /\ Failure = "BTRConfigError" => result.value = 4
        /\ Failure = "BTRValidationError" => result.value = 5
        /\ Failure = "KeyboardInterrupt" => result.value = 130
        /\ Failure \notin {"none", "KeyboardInterrupt"} =>
               result.value = GetExitCode(Failure)

\* The call of export_file in result would succeed with format csv: the
\* file and the other arguments give export_file nothing else to fail on.
ExportableAsCsv ==
    ExportFile(exists, readable, TheFile, "csv", result.args[2], None,
               result.args[3], result.args[4], result.args[5]).raises = "none"

\* C14: export_file with a format outside {csv, jsonl, sqlite, excel, xml}
\* fails with BTRValidationError, whether or not output_file is given, and
\* creates or overwrites no output file (checked on calls that succeed when
\* the format is csv, so that the format is the only thing at fault).
C14_UnsupportedFormatIsValidationError ==
    (/\ result.op = "export_file"
     /\ result.args[1] \notin {"csv", "jsonl", "sqlite", "excel", "xml"}
     /\ ExportableAsCsv) =>
        /\ result.raises = "BTRValidationError"
        /\ result.wrote = {}

\* ------------------------------------------------------------ schema claims

\* detect_schema returned a schema.
SchemaReturned == result.op = "detect_schema" /\ result.raises = "none"

\* The position statistics behind the schema in result.
SchemaStats ==
    AnalyzeFieldPatterns(ExtractRecords(exists, readable, TheFile,
                                        result.value.record_size,
                                        Some(result.args[2])).value)

\* The run type of the position where field starts.
RunType(field) == PositionType(SchemaStats[field.position])

\* The offset after the last one of field.
FieldEnd(field) == field.position + field.length

\* C16: for every record set of uniform size R the field list of
\* _detect_fields is ordered and disjoint: every field has position >= 0,
\* length >= 1 and position + length <= R, and for all i < j,
\* fields[i].position + fields[i].length <= fields[j].position.
C16_FieldsOrderedAndDisjoint ==
    SchemaReturned =>
        LET fields == result.value.fields
        IN  /\ \A i \in 1..Len(fields) :
                   /\ fields[i].position >= 0
                   /\ fields[i].length >= 1
                   /\ FieldEnd(fields[i]) <= result.value.record_size
            /\ \A i, j \in 1..Len(fields) :
                   i < j => FieldEnd(fields[i]) <= fields[j].position

\* A schema of at least three fields, two of them adjacent and two of them
\* apart, the last one ending with the record.
C16_Witness ==
    /\ SchemaReturned
    /\ LET fields == result.value.fields
       IN  /\ Len(fields) >= 3
           /\ \E i \in 1..(Len(fields) - 1) : FieldEnd(fields[i]) = fields[i + 1].position
           /\ \E i \in 1..(Len(fields) - 1) : FieldEnd(fields[i]) < fields[i + 1].position
           /\ FieldEnd(fields[Len(fields)]) = result.value.record_size

\* C17 as stated: each descriptor's position + length is strictly less than
\* the next descriptor's position; two consecutive fields are never adjacent.
C17_ConsecutiveFieldsNeverAdjacent ==
    SchemaReturned =>
        \A i \in 1..(Len(result.value.fields) - 1) :
            FieldEnd(result.value.fields[i]) < result.value.fields[i + 1].position

\* C17, amended: each descriptor's position + length is at most the next
\* descriptor's position; the offsets between the two, if any, are all null
\* padding, and two fields with no offset between them differ in run type.
C17_AdjacentWhereRunTypeChanges ==
    SchemaReturned =>
        LET fields == result.value.fields
        IN  \A i \in 1..(Len(fields) - 1) :
                /\ FieldEnd(fields[i]) <= fields[i + 1].position
                /\ \A pos \in FieldEnd(fields[i])..(fields[i + 1].position - 1) :
                       PositionType(SchemaStats[pos]) = "null_padding"
                /\ FieldEnd(fields[i]) = fields[i + 1].position =>
                       RunType(fields[i]) # RunType(fields[i + 1])

\* The schema of the 64-byte JOHN DOE records: the alpha field "JOHN" is
\* followed at once by the mixed field of the space after it.
C17_Witness ==
    /\ SchemaReturned
    /\ result.value.record_size = 64
    /\ Len(result.value.fields) >= 2
    /\ result.value.fields[1].position = 0
    /\ result.value.fields[1].length = 4
    /\ result.value.fields[2].position = 4
    /\ RunType(result.value.fields[1]) = "alpha"
    /\ RunType(result.value.fields[2]) = "mixed"

\* The average digit fraction of field exceeds n / 100: the digit count
\* summed over the span, divided by records times length.
DigitFractionExceeds(field, n) == FracLess(Frac(n, 1), field.digit_percent)

\* C18: a field whose run type is digits is named (zip_code, ZIP_CODE) iff
\* its length is 5 and its average digit fraction exceeds 0.8; it is named
\* (phone_number, PHONE) iff that fails, its length is >= 10 and its average
\* digit fraction exceeds 0.9.
C18_DigitsFieldNaming ==
    SchemaReturned =>
        \A i \in 1..Len(result.value.fields) :
            LET field == result.value.fields[i]
                zip == field.length = 5 /\ DigitFractionExceeds(field, 80)
                phone == ~zip /\ field.length >= 10 /\ DigitFractionExceeds(field, 90)
            IN  RunType(field) = "digits" =>
                    /\ (field.name = <<"zip_code">> /\ field.type = "ZIP_CODE") <=> zip
                    /\ (field.name = <<"phone_number">> /\ field.type = "PHONE") <=> phone

\* The file holds its FCR pages and then JOHN DOE records only.
JohnDoeRecordsOnly ==
    /\ exists
    /\ head = "fcr"
    /\ body # <<>>
    /\ \A k \in 1..Len(body) : body[k] = "john_4"

\* C19: for the record set of 64-byte JOHN DOE records, field boundary
\* detection produces at least an alpha field at offset 0 of length 8, a
\* text field spanning the address (offsets 12..21), a digits field of length
\* 5 covering the ZIP (offset 27) and a digits field of length >= 10
\* covering the phone number (offset 38).
C19_JohnDoeFieldBoundaries ==
    (SchemaReturned /\ JohnDoeRecordsOnly /\ result.value.record_size = 64) =>
        LET fields == result.value.fields
            Has(run_type, Fits(_)) ==
                \E i \in 1..Len(fields) : RunType(fields[i]) = run_type /\ Fits(fields[i])
            Name(field) == field.position = 0 /\ field.length = 8
            Address(field) == field.position <= 12 /\ FieldEnd(field) >= 22
            Zip(field) == field.position = 27 /\ field.length = 5
            Phone(field) == field.position = 38 /\ field.length >= 10
        IN  /\ Has("alpha", Name)
            /\ Has("text", Address)
            /\ Has("digits", Zip)
            /\ Has("digits", Phone)

\* ------------------------------------------------------------ extraction claims

\* The extracted fields of the first record of a file of JOHN DOE records.
JohnDoeExtracted ==
    /\ result.op = "extracted_fields"
    /\ result.raises = "none"
    /\ result.args[1] = 64
    /\ JohnDoeRecordsOnly

\* C20 as stated: for the JOHN DOE record the field extractor yields state
\* "CA", zip_code "90210", address "PO Box 123" and phone "8005550123", the
\* first 10 digits of the digit run that starts with 800.
C20_PhoneIsFirstTenDigits ==
    JohnDoeExtracted =>
        /\ result.value[1].state = <<67, 65>>
        /\ result.value[1].zip_code = <<57, 48, 50, 49, 48>>
        /\ result.value[1].address = <<80, 79, 32, 66, 111, 120, 32, 49, 50, 51>>
        /\ result.value[1].phone = <<56, 48, 48, 53, 53, 53, 48, 49, 50, 51>>

\* C20, amended: for the JOHN DOE record the field extractor yields state
\* "CA", zip_code "90210", address "PO Box 123" and phone "800555012345",
\* the whole 12-digit run that starts with 800.
C20_PhoneIsWholeDigitRun ==
    JohnDoeExtracted =>
        /\ result.value[1].state = <<67, 65>>
        /\ result.value[1].zip_code = <<57, 48, 50, 49, 48>>
        /\ result.value[1].address = <<80, 79, 32, 66, 111, 120, 32, 49, 50, 51>>
        /\ result.value[1].phone = <<56, 48, 48, 53, 53, 53, 48, 49, 50, 51, 52, 53>>

\* The fields of a JOHN DOE record were extracted, the phone number among
\* them.
C20_Witness ==
    /\ JohnDoeExtracted
    /\ Len(result.value[1].phone) = 12

\* ------------------------------------------------------------ score claims

\* 0 <= a <= n, for a fraction a with a positive denominator.
FracWithin(a, n) == a.num >= 0 /\ a.num <= n * a.den

\* C21: the quality score of any record set is in [0, 100], 0 for the empty
\* set; whenever detect_record_size returns, the returned size is one of 32,
\* 64, 128, 256, 512, 1024 and the returned quality is in [0, 1].
C21_ScoreAndQualityRanges ==
    /\ (result.op = "extract_records" /\ result.raises = "none") =>
           /\ FracWithin(CalculateQualityScore(result.value), 100)
           /\ result.value = <<>> => CalculateQualityScore(result.value).num = 0
    /\ (result.op = "detect_record_size" /\ result.raises = "none") =>
           /\ result.value.size \in {32, 64, 128, 256, 512, 1024}
           /\ FracWithin(result.value.quality, 1)

\* detect_record_size returned a size other than the default with a quality
\* above 0.9: a record set whose printable density is capped.
C21_Witness ==
    /\ result.op = "detect_record_size"
    /\ result.raises = "none"
    /\ result.value.size # 64
    /\ FracLess(Frac(9, 10), result.value.quality)

\* ------------------------------------------------------------ export claims

\* export_file wrote a sheet of the given format.
Exported(format_type) ==
    /\ result.op = "export_file"
    /\ result.raises = "none"
    /\ result.args[1] = format_type

\* The header row of the csv export of the records that the call in result
\* exported.
CsvHeaderOfSameRecords ==
    ExportFile(exists, readable, TheFile, "csv", result.args[2], None, result.args[3],
               result.args[4], result.args[5]).header

\* The sorted union of the extracted_fields keys.
SortedKeys ==
    <<"address", "amount", "phone", "procedure_code", "provider_code", "state",
      "zip_code">>

\* C22 as stated: for the same record set the header row of the XLSX export
\* equals the CSV export's header, [record_num, record_size, decoded_text,
\* printable_chars, has_digits, has_alpha] followed by the sorted union of
\* the extracted_fields keys, with no other column.
C22_ExcelHeaderEqualsCsvHeader ==
    Exported("excel") =>
        /\ result.header = CsvHeaderOfSameRecords
        /\ result.header =
               <<"record_num", "record_size", "decoded_text", "printable_chars",
                 "has_digits", "has_alpha">> \o SortedKeys

\* C22, amended: the CSV header is [record_num, record_size, decoded_text,
\* printable_chars, has_digits, has_alpha] followed by the sorted union of
\* the extracted_fields keys; the XLSX header is the CSV header of the same
\* record set with one more column, raw_bytes, after record_size.
C22_ExcelHeaderAddsRawBytes ==
    /\ Exported("csv") =>
           result.header =
               <<"record_num", "record_size", "decoded_text", "printable_chars",
                 "has_digits", "has_alpha">> \o SortedKeys
    /\ Exported("excel") =>
           /\ Len(result.header) = Len(CsvHeaderOfSameRecords) + 1
           /\ result.header =
                  SubSeq(CsvHeaderOfSameRecords, 1, 2) \o <<"raw_bytes">>
                      \o SubSeq(CsvHeaderOfSameRecords, 3, Len(CsvHeaderOfSameRecords))

\* An XLSX sheet was written for records of an auto-detected size.
C22_Witness ==
    /\ Exported("excel")
    /\ result.args[2] = None
    /\ result.wrote # {}
    /\ Len(result.header) = 14

\* ------------------------------------------------------------ scan claims

\* The name in result ends in one of .btr, .dat, .idx, .key, in any case.
KnownExtension ==
    \E ext \in BtrieveExtensions : EndsWith(Lower(result.args[1]), ext)

\* The name in result has no extension.
NoExtension == \A i \in 1..Len(result.args[1]) : result.args[1][i] # 46

\* C23: the scanner treats a file as a Btrieve candidate only if its size is
\* at least 8192 bytes and either its name ends in one of .btr, .dat, .idx,
\* .key or it has no extension and its size is a multiple of 4096; a file of
\* at least 8192 bytes with any other extension is never a candidate.
C23_CandidateOnlyByExtensionOrPageMultiple ==
    (result.op = "_is_potential_btrieve_file" /\ result.value.candidate) =>
        /\ TheFile.size >= 8192
        /\ KnownExtension \/ (NoExtension /\ TheFile.size % 4096 = 0)

\* ------------------------------------------------------------ C24, C30

Compared == result.op = "compare_files" /\ result.raises = "none"

SecondFile ==
    [ex |-> result.args[1], rd |-> TRUE, f |-> FileHolding(result.args[2], result.args[3])]

FirstFile == [ex |-> exists, rd |-> readable, f |-> TheFile]

SameBytes == result.args[2] = head /\ result.args[3] = body

\* C24: a comparison of two files that returns has the assessment
\* 'files_appear_identical' exactly when it found no difference; two files
\* of identical bytes come out with no difference, and two files of
\* different sizes with the difference 'file_size' and another assessment.
C24_AssessmentMatchesDifferences ==
    Compared =>
        /\ (result.value.assessment = "files_appear_identical")
               <=> (DOMAIN result.value.differences = {})
        /\ SameBytes =>
               /\ DOMAIN result.value.differences = {}
               /\ result.value.assessment = "files_appear_identical"
        /\ TheFile.size # SecondFile.f.size =>
               /\ "file_size" \in DOMAIN result.value.differences
               /\ result.value.assessment # "files_appear_identical"

C24_Witness ==
    /\ Compared
    /\ SameBytes
    /\ body # <<>>
    /\ result.value.assessment = "files_appear_identical"

\* The two files have the same detected record size and each yields a
\* record of that size.
SameSizeWithRecords ==
    LET max_records == result.args[4]
        detected1 == DetectRecordSize(FirstFile.ex, FirstFile.rd, FirstFile.f, max_records)
        detected2 == DetectRecordSize(SecondFile.ex, SecondFile.rd, SecondFile.f, max_records)
    IN  /\ detected1.raises = "none" /\ detected2.raises = "none"
        /\ detected1.value.size # 0
        /\ detected1.value.size = detected2.value.size
        /\ \A file \in {FirstFile, SecondFile} :
               LET extracted == ExtractRecords(file.ex, file.rd, file.f,
                                               detected1.value.size, Some(max_records))
               IN  extracted.raises = "none" /\ Len(extracted.value) >= 1

\* C30: when the two files have the same detected record size and each
\* yields a record, the comparison holds a record_comparison that counts the
\* compared positions in total_compared and the equal ones in
\* identical_records, and two files of identical bytes match at 100 percent.
C30_RecordComparisonCountsMatches ==
    (Compared /\ SameSizeWithRecords) =>
        /\ result.value.record_comparison # None
        /\ {"total_compared", "identical_records", "match_percentage"}
               \subseteq DOMAIN The(result.value.record_comparison)
        /\ The(result.value.record_comparison).total_compared
               = The(result.value.record_comparison).records_compared
        /\ SameBytes =>
               FracEq(The(result.value.record_comparison).match_percentage, Frac(100, 1))

\* ------------------------------------------------------------ C25

\* C25: main() given the command 'check' on the file runs the integrity
\* check and returns 0 when it detects no corruption and 1 when it detects
\* corruption.
C25_CheckCommandRunsIntegrityCheck ==
    (result.op = "main" /\ result.args[1] = "check" /\ ~result.args[3]) =>
        /\ result.raises = "none"
        /\ result.value = IF CheckIntegrity(exists, readable, TheFile).corruption_detected
                          THEN 1 ELSE 0

\* ------------------------------------------------------------ C28

\* The offsets of field.
Offsets(field) == field.position..(FieldEnd(field) - 1)

\* C28: the fields of a schema detected from at least one record are exactly
\* the maximal runs of equal position type: every offset that is not null
\* padding lies in exactly one field, no null padding offset lies in a
\* field, all offsets of a field have one position type, and two fields with
\* no offset between them have different types.
C28_FieldsAreTheMaximalRuns ==
    (SchemaReturned /\ result.value.records_analyzed > 0) =>
        \A stats \in {SchemaStats} :
            LET fields == result.value.fields
                type == [pos \in 0..(result.value.record_size - 1) |->
                             PositionType(stats[pos])]
            IN  /\ \A pos \in DOMAIN type :
                       Cardinality({i \in 1..Len(fields) : pos \in Offsets(fields[i])})
                           = IF type[pos] = "null_padding" THEN 0 ELSE 1
                /\ \A i \in 1..Len(fields) :
                       /\ Offsets(fields[i]) \subseteq DOMAIN type
                       /\ \A pos \in Offsets(fields[i]) : type[pos] = type[fields[i].position]
                /\ \A i \in 1..(Len(fields) - 1) :
                       FieldEnd(fields[i]) = fields[i + 1].position =>
                           type[fields[i].position] # type[fields[i + 1].position]

\* A schema with a field of several offsets, two fields with no offset
\* between them and null padding outside the fields.
C28_Witness ==
    /\ SchemaReturned
    /\ result.value.records_analyzed > 0
    /\ \E i \in 1..Len(result.value.fields) : result.value.fields[i].length >= 2
    /\ \E i \in 1..(Len(result.value.fields) - 1) :
           FieldEnd(result.value.fields[i]) = result.value.fields[i + 1].position
    /\ \E pos \in 0..(result.value.record_size - 1) :
           PositionType(SchemaStats[pos]) = "null_padding"

\* ------------------------------------------------------------ C29

\* cmd_repair rebuilt the corrupt file from its records and returned 0.
RepairedFromRecords ==
    /\ result.op = "cmd_repair"
    /\ result.args[2] /\ ~result.args[3]
    /\ CheckIntegrity(exists, readable, TheFile).corruption_detected
    /\ result.value.exit_code = 0

\* The raw bytes of the records of size record_size in file f.
RawRecords(ex, rd, f, record_size) ==
    LET extracted == ExtractRecords(ex, rd, f, record_size, None).value
    IN  [i \in 1..Len(extracted) |-> extracted[i].raw_bytes]

\* C29: the file cmd_repair rebuilds from the records of a corrupt file
\* passes the integrity check, and its records of the same size are the
\* records it was rebuilt from.
C29_RepairedFilePassesIntegrityCheck ==
    RepairedFromRecords =>
        /\ ~CheckIntegrity(TRUE, TRUE, The(result.value.output)).corruption_detected
        /\ RawRecords(TRUE, TRUE, The(result.value.output), The(result.value.record_size))
               = RawRecords(exists, readable, TheFile, The(result.value.record_size))

\* The part of C29 about the records alone.
C29_RepairedFileKeepsRecords ==
    RepairedFromRecords =>
        RawRecords(TRUE, TRUE, The(result.value.output), The(result.value.record_size))
            = RawRecords(exists, readable, TheFile, The(result.value.record_size))

\* The rebuilt file fails the integrity check every time.
C29_RepairedFileStillCorrupt ==
    RepairedFromRecords =>
        CheckIntegrity(TRUE, TRUE, The(result.value.output)).corruption_detected

\* ------------------------------------------------------------ C26, C27

BatchReturned == result.op = "cmd_batch" /\ result.pc = "returned"

\* The paths of existing files that the arguments of the batch name.
NamedFiles ==
    {path \in BatchPaths :
        /\ IsFile(path, World(result.args[2]))
        /\ \E i \in DOMAIN result.args[1] : Matches(result.args[1][i], path)}

\* The files of the calls of process_file, those to come, those under way
\* and those that are done.
BatchFiles ==
    result.queue \o result.running
        \o [i \in 1..Len(result.done) |-> result.done[i].file]
        \o [i \in 1..Len(result.results) |-> result.results[i].file]

\* seq holds every element of S once and nothing else.
HoldsEachOnce(seq, S) ==
    /\ Len(seq) = Cardinality(S)
    /\ {seq[i] : i \in DOMAIN seq} = S

\* C26: a batch, sequential or on the thread pool, processes every path of
\* an existing file that its arguments name exactly once, whatever the
\* order of the steps of the main thread and the workers, and ends with one
\* result per such path; it returns 0 iff it had a file to process and the
\* operation succeeded on each, and 1 with no existing file or with an
\* operation that fails, as an export without format does.
C26_OneResultPerFileAndExitCode ==
    result.op = "cmd_batch" =>
        /\ HoldsEachOnce(BatchFiles, NamedFiles)
        /\ BatchReturned =>
               /\ HoldsEachOnce([i \in 1..Len(result.results) |-> result.results[i].file],
                                NamedFiles)
               /\ result.value \in {Some(0), Some(1)}
               /\ result.value = Some(0) <=>
                      /\ NamedFiles # {}
                      /\ \A path \in NamedFiles :
                             ProcessFile(path, World(result.args[2]), result.args[3],
                                         result.args[4]).success
               /\ (result.args[3] = "export" /\ result.args[4] = None) =>
                      result.value = Some(1)

\* A batch on two workers that returned 0 with three results, the first of
\* them not for the first file submitted.
C26_Witness ==
    /\ BatchReturned
    /\ result.args[5] > 1
    /\ Len(result.results) = 3
    /\ result.results[1].file # result.valid_files[1]
    /\ result.value = Some(0)

\* C27: two results of a batch export for two distinct input files never
\* name the same output file.
C27_DistinctFilesDistinctOutputs ==
    result.op = "cmd_batch" =>
        \A i, j \in 1..Len(result.results) :
            (/\ result.results[i].file # result.results[j].file
             /\ result.results[i].output # None
             /\ result.results[j].output # None)
                => result.results[i].output # result.results[j].output

=============================================================================
